---- MODULE Spec2Model ----
(***************************************************************************)
(* Model of the patch execution wrapper of the copacetic MCP server:       *)
(* internal/copa/cli.go (CLI: New, Build*, validateCommand, setupAuth,     *)
(* execute, Run, parseVexDoc) and the package-level VEX parser of          *)
(* internal/copamcp/server.go.                                             *)
(*                                                                         *)
(* One CLI object is constructed (Init) and then driven by its builder and *)
(* run operations.  The collaborators the code calls (registry login, the  *)
(* patcher subprocess, the file system, the clock) are inputs of the       *)
(* actions, drawn from small sets.                                         *)
(***************************************************************************)
EXTENDS Integers, Sequences, FiniteSets, TLC

VARIABLES
    cli,        \* the CLI struct (cli.go:61-72)
    vexFile,    \* content of the file at VexFilePath on disk
    op,         \* the operation of the CLI called last
    result,     \* *ExecutionResult returned by the last execute/Run call
    err,        \* error returned by the last call (chain of wrapped messages)
    calls,      \* collaborators invoked by the last call, in order
    spawned,    \* argv handed to the subprocess by the last call (<<>>: none)
    proc,       \* what the subprocess of the last call did
    authReply,  \* what the registry-auth step answered in the last call
    pre,        \* the CLI struct as it was when the last call started
    request,    \* the parameters the CLI was constructed from
    vexIn,      \* VEX parser check: the path and file content given
    vexOut,     \* VEX parser check: what the two parsers returned
    patchIn,    \* patch tool handlers over copa.Run: the tool called and its arguments
    patchOut,   \* patch tool handlers over copa.Run: what the call did and returned
    platIn,     \* platform table check: the platform list given
    platOut,    \* platform table check: what both packages' functions returned
    scanIn,     \* scan: the ScanParams given
    scanOut,    \* scan: the scanner runs made, the files left, what Scan returned
    reqs,       \* concurrent report-based patch requests: where each one is
    tmp,        \* concurrent requests: the files of os.TempDir() they share
    toolIn,     \* tool call through the server: the tool named and its arguments
    toolOut     \* tool call through the server: what the caller got back

vars == <<cli, vexFile, op, result, err, calls, spawned, proc, authReply, pre, request, vexIn, vexOut,
          patchIn, patchOut, platIn, platOut, scanIn, scanOut, reqs, tmp, toolIn, toolOut>>

\* The variables of the CLI object and its last call.
cliVars == <<cli, vexFile, op, result, err, calls, spawned, proc, authReply, pre, request>>

vexVars == <<vexIn, vexOut>>

patchVars == <<patchIn, patchOut>>

platVars == <<platIn, platOut>>

scanVars == <<scanIn, scanOut>>

concVars == <<reqs, tmp>>

toolVars == <<toolIn, toolOut>>

(***************************************************************************)
(* Bounds of the model.                                                    *)
(***************************************************************************)
MaxPlatforms == 2        \* longest platform list of a request
MaxStatements == 2       \* most statements of a VEX document
MaxProducts == 1         \* most products of a statement
MaxSubcomponents == 2    \* most subcomponents of a product
MaxExitCode == 1         \* largest exit code of the subprocess
MaxElapsed == 1          \* longest measured duration, in clock ticks

(***************************************************************************)
(* Sequences helpers.                                                      *)
(***************************************************************************)
Contains(s, x) == \E i \in DOMAIN s : s[i] = x

Count(s, x) == Cardinality({i \in DOMAIN s : s[i] = x})

Tail1(s) == SubSeq(s, 2, Len(s))

SeqsUpTo(S, n) == UNION {[1..k -> S] : k \in 0..n}

\* A command-line argument is a string, held as its sequence of tokens, so
\* that strings.Join is a concatenation the model can compute.
Arg(s) == <<s>>

Args(ss) == [i \in DOMAIN ss |-> Arg(ss[i])]

RECURSIVE Join(_, _)
Join(s, sep) ==
    IF Len(s) = 0 THEN <<>>
    ELSE IF Len(s) = 1 THEN <<s[1]>>
    ELSE <<s[1], sep>> \o Join(Tail(s), sep)

(***************************************************************************)
(* Errors: the chain of messages, outermost first; <<>> is nil.            *)
(***************************************************************************)
NoErr == <<>>

Wrap(msg, e) == <<msg>> \o e

(***************************************************************************)
(* Platform capability table.                                              *)
(***************************************************************************)
CopaSupportedPlatforms ==
    << "linux/amd64", "linux/arm64", "linux/arm/v7", "linux/arm/v6",
       "linux/386", "linux/ppc64le", "linux/s390x", "linux/riscv64" >>

IsPlatformSupported(platform) ==
    \E i \in DOMAIN CopaSupportedPlatforms :
        \/ platform = CopaSupportedPlatforms[i]
        \/ /\ CopaSupportedPlatforms[i] = "linux/arm64"
           /\ (platform = "linux/arm64/v8" \/ platform = "linux/arm64")

FilterSupportedPlatforms(platforms) == SelectSeq(platforms, IsPlatformSupported)

(***************************************************************************)
(* The request parameters the model draws from.                            *)
(***************************************************************************)
Images == {"", "alpine:3.17"}

Tags == {"", "patched"}

PlatformNames == {"linux/arm64/v8", "windows/amd64"}

PlatformLists == SeqsUpTo(PlatformNames, MaxPlatforms)

\* The file system the report paths are looked up in: what os.Stat answers.
ReportPaths == {"", "/tmp/reports", "/nonexistent/path", "/root/locked/reports"}

Stat(path) ==
    CASE path = "/tmp/reports" -> "ok"
      [] path = "/root/locked/reports" -> "EACCES"
      [] OTHER -> "ENOENT"

IsNotExist(e) == e = "ENOENT"

ReportBasedPatchParams ==
    [shape : {"ReportBasedPatchParams"}, Image : Images, Tag : Tags, Push : BOOLEAN,
     ReportPath : ReportPaths]

PlatformSelectivePatchParams ==
    [shape : {"PlatformSelectivePatchParams"}, Image : Images, Tag : Tags, Push : BOOLEAN,
     Platform : PlatformLists]

ComprehensivePatchParams ==
    [shape : {"ComprehensivePatchParams"}, Image : Images, Tag : Tags, Push : BOOLEAN]

PatchParamsConstraint ==
    ReportBasedPatchParams \cup PlatformSelectivePatchParams \cup ComprehensivePatchParams

(***************************************************************************)
(* exec.Cmd and exec.Command.                                              *)
(***************************************************************************)
NilCmd == [nil |-> TRUE, Path |-> "", Args |-> <<>>, attached |-> FALSE]

LookPath(name) == IF name = "copa" THEN "/usr/local/bin/copa" ELSE name

\* exec.Command / exec.CommandContext: a fresh command with no writers attached.
Command(name, args) ==
    [nil |-> FALSE, Path |-> LookPath(name), Args |-> <<Arg(name)>> \o args, attached |-> FALSE]

(***************************************************************************)
(* New: the CLI built from one of the three parameter shapes.              *)
(***************************************************************************)
\* New with a report path filled in for every shape (a wrong variant).
New_DefaultReportPath(params, dryRun) ==
    [copaPath |-> "copa",
     dryRun |-> dryRun,
     image |-> params.Image,
     tag |-> params.Tag,
     platforms |-> IF params.shape = "PlatformSelectivePatchParams"
                   THEN params.Platform ELSE <<>>,
     push |-> params.Push,
     reportPath |-> IF params.shape = "ReportBasedPatchParams"
                    THEN params.ReportPath ELSE "/tmp/reports",
     vexPath |-> "",
     cmd |-> NilCmd]

New(params, dryRun) ==
    [copaPath |-> "copa",
     dryRun |-> dryRun,
     image |-> params.Image,
     tag |-> params.Tag,
     platforms |-> IF params.shape = "PlatformSelectivePatchParams"
                   THEN params.Platform ELSE <<>>,
     push |-> params.Push,
     reportPath |-> IF params.shape = "ReportBasedPatchParams"
                    THEN params.ReportPath ELSE "",
     vexPath |-> "",
     cmd |-> NilCmd]

(***************************************************************************)
(* Build, BuildWithPlatforms, BuildWithReport.                             *)
(***************************************************************************)
VexFilePath == "/tmp/vex.json"   \* filepath.Join(os.TempDir(), defaultVexFile)

Build(c) ==
    LET args == Args(<<"patch", "--image", c.image>>)
                \o (IF c.tag # "" THEN Args(<<"--tag", c.tag>>) ELSE <<>>)
                \o (IF c.push THEN Args(<<"--push">>) ELSE <<>>)
    IN [c EXCEPT !.cmd = Command(c.copaPath, args)]

BuildWithPlatforms(c) ==
    LET b == Build(c)
        supportedPlatforms == FilterSupportedPlatforms(b.platforms)
    IN IF Len(b.platforms) > 0 /\ Len(supportedPlatforms) > 0
       THEN [b EXCEPT !.cmd.Args = @ \o <<Arg("--platform"), Join(supportedPlatforms, ",")>>]
       ELSE b

BuildWithReport(c) ==
    LET b == Build(c)
    IN IF b.reportPath # ""
       THEN [b EXCEPT !.cmd.Args = @ \o Args(<<"--report", b.reportPath, "--output", VexFilePath>>),
                      !.vexPath = VexFilePath]
       ELSE b

(***************************************************************************)
(* setupAuth: reply is what SetupRegistryAuthFromEnv answered.             *)
(***************************************************************************)
AuthReplies == {"login", "nologin", "error"}

AuthError == <<"authentication failed">>

\* Mutant: push is recorded but the flag is not appended to the arguments.
setupAuth_PushNotAppended(c, reply) ==
    IF reply = "error"
    THEN [cli |-> c, err |-> Wrap("failed to authenticate to registry", AuthError)]
    ELSE IF reply = "login" /\ ~c.cmd.nil /\ ~Contains(c.cmd.Args, Arg("--push"))
         THEN [cli |-> [c EXCEPT !.push = TRUE], err |-> NoErr]
         ELSE [cli |-> c, err |-> NoErr]

\* Mutant: a failed login is treated as no login.
setupAuth_ErrorSwallowed(c, reply) ==
    IF reply = "login" /\ ~c.cmd.nil /\ ~Contains(c.cmd.Args, Arg("--push"))
    THEN [cli |-> [c EXCEPT !.push = TRUE, !.cmd.Args = @ \o Args(<<"--push">>)],
          err |-> NoErr]
    ELSE [cli |-> c, err |-> NoErr]

\* Mutant: the flag is appended at every login, present or not.
setupAuth_AppendsAgain(c, reply) ==
    IF reply = "error"
    THEN [cli |-> c, err |-> Wrap("failed to authenticate to registry", AuthError)]
    ELSE IF reply = "login" /\ ~c.cmd.nil
         THEN [cli |-> [c EXCEPT !.push = TRUE, !.cmd.Args = @ \o Args(<<"--push">>)],
               err |-> NoErr]
         ELSE [cli |-> c, err |-> NoErr]

setupAuth(c, reply) ==
    IF reply = "error"
    THEN [cli |-> c, err |-> Wrap("failed to authenticate to registry", AuthError)]
    ELSE IF reply = "login" /\ ~c.cmd.nil /\ ~Contains(c.cmd.Args, Arg("--push"))
         THEN [cli |-> [c EXCEPT !.push = TRUE, !.cmd.Args = @ \o Args(<<"--push">>)],
               err |-> NoErr]
         ELSE [cli |-> c, err |-> NoErr]

(***************************************************************************)
(* validateCommand: err, and whether os.Stat was called.                   *)
(***************************************************************************)
\* Mutant: the report path is not looked up.
validateCommand_SkipsReportPath(c) ==
    IF c.cmd.nil
    THEN [err |-> <<"no command built - call a Build method first">>, stat |-> FALSE]
    ELSE IF c.image = ""
    THEN [err |-> <<"image is required">>, stat |-> FALSE]
    ELSE IF Len(c.platforms) > 0 /\ Len(FilterSupportedPlatforms(c.platforms)) = 0
    THEN [err |-> <<"no supported platforms found in">>, stat |-> FALSE]
    ELSE [err |-> NoErr, stat |-> FALSE]

\* Mutant: a platform list with any unsupported entry is rejected.
validateCommand_StrictSubset(c) ==
    IF c.cmd.nil
    THEN [err |-> <<"no command built - call a Build method first">>, stat |-> FALSE]
    ELSE IF c.image = ""
    THEN [err |-> <<"image is required">>, stat |-> FALSE]
    ELSE IF Len(c.platforms) > 0
            /\ Len(FilterSupportedPlatforms(c.platforms)) # Len(c.platforms)
    THEN [err |-> <<"no supported platforms found in">>, stat |-> FALSE]
    ELSE IF c.reportPath # "" /\ IsNotExist(Stat(c.reportPath))
    THEN [err |-> <<"report path does not exist">>, stat |-> TRUE]
    ELSE [err |-> NoErr, stat |-> c.reportPath # ""]

validateCommand(c) ==
    IF c.cmd.nil
    THEN [err |-> <<"no command built - call a Build method first">>, stat |-> FALSE]
    ELSE IF c.image = ""
    THEN [err |-> <<"image is required">>, stat |-> FALSE]
    ELSE IF Len(c.platforms) > 0 /\ Len(FilterSupportedPlatforms(c.platforms)) = 0
    THEN [err |-> <<"no supported platforms found in">>, stat |-> FALSE]
    ELSE IF c.reportPath # "" /\ IsNotExist(Stat(c.reportPath))
    THEN [err |-> <<"report path does not exist">>, stat |-> TRUE]
    ELSE [err |-> NoErr, stat |-> c.reportPath # ""]

(***************************************************************************)
(* VEX documents and the files that may hold them.                         *)
(***************************************************************************)
StatusFixed == "fixed"

Statuses == {"fixed", "not_affected"}

Packages == {"pkg"}

VexProducts(maxSub) == [Subcomponents : SeqsUpTo(Packages, maxSub)]

VexStatements(maxProd, maxSub) ==
    [Status : Statuses, Products : SeqsUpTo(VexProducts(maxSub), maxProd)]

Absent == [kind |-> "absent", Statements |-> <<>>]

Malformed == [kind |-> "malformed", Statements |-> <<>>]

Doc(statements) == [kind |-> "doc", Statements |-> statements]

VexDocs == {Doc(s) : s \in SeqsUpTo(VexStatements(MaxProducts, MaxSubcomponents), MaxStatements)}

FileContents == {Absent, Malformed} \cup VexDocs

\* os.ReadFile: the content, or the error of a file that is not there.
ReadFile(path, vf) ==
    IF path = VexFilePath /\ vf.kind # "absent"
    THEN [err |-> NoErr, data |-> vf]
    ELSE [err |-> <<"open: no such file or directory">>, data |-> Absent]

\* json.Unmarshal into vex.VEX.
Unmarshal(data) ==
    IF data.kind = "doc"
    THEN [err |-> NoErr, Statements |-> data.Statements]
    ELSE [err |-> <<"invalid character">>, Statements |-> <<>>]

(***************************************************************************)
(* CLI.parseVexDoc (cli.go) and parseVexDoc (server.go).                   *)
(***************************************************************************)
RECURSIVE SumSubcomponents(_)
SumSubcomponents(products) ==
    IF products = <<>> THEN 0
    ELSE Len(Head(products).Subcomponents) + SumSubcomponents(Tail(products))

\* Mutant: every statement is counted, whatever its status.
RECURSIVE CountStatements_AnyStatus(_)
CountStatements_AnyStatus(statements) ==
    IF statements = <<>>
    THEN [numFixedVulns |-> 0, updatedPackageCount |-> 0]
    ELSE LET stmt == Head(statements)
             rest == CountStatements_AnyStatus(Tail(statements))
         IN [numFixedVulns |-> rest.numFixedVulns + 1,
             updatedPackageCount |->
                 rest.updatedPackageCount + SumSubcomponents(stmt.Products)]

RECURSIVE CountStatements(_)
CountStatements(statements) ==
    IF statements = <<>>
    THEN [numFixedVulns |-> 0, updatedPackageCount |-> 0]
    ELSE LET stmt == Head(statements)
             rest == CountStatements(Tail(statements))
         IN IF stmt.Status = StatusFixed
            THEN [numFixedVulns |-> rest.numFixedVulns + 1,
                  updatedPackageCount |->
                      rest.updatedPackageCount + SumSubcomponents(stmt.Products)]
            ELSE rest

ParseFailed(e, didRead) ==
    [numFixedVulns |-> 0, updatedPackageCount |-> 0, err |-> e, read |-> didRead]

ReadAndCount(path, vf) ==
    LET file == ReadFile(path, vf)
        doc == Unmarshal(file.data)
        n == CountStatements(doc.Statements)
    IN IF file.err # NoErr THEN ParseFailed(file.err, TRUE)
       ELSE IF doc.err # NoErr THEN ParseFailed(doc.err, TRUE)
       ELSE [numFixedVulns |-> n.numFixedVulns,
             updatedPackageCount |-> n.updatedPackageCount,
             err |-> NoErr, read |-> TRUE]

\* Mutant: no short-circuit on an empty VEX path.
CLI_parseVexDoc_NoShortCircuit(c, path, vf) == ReadAndCount(path, vf)

\* Mutant: a failed read or parse is reported as zero counts and no error.
CLI_parseVexDoc_ErrorSwallowed(c, path, vf) ==
    IF c.vexPath = "" THEN ParseFailed(NoErr, FALSE)
    ELSE [ReadAndCount(path, vf) EXCEPT !.err = NoErr]

CLI_parseVexDoc(c, path, vf) ==
    IF c.vexPath = "" THEN ParseFailed(NoErr, FALSE)
    ELSE ReadAndCount(path, vf)

parseVexDoc(path, vf) == ReadAndCount(path, vf)

(***************************************************************************)
(* The patcher subprocess: how it ends, what it writes to its two streams, *)
(* and what it leaves in the file named by --output.                       *)
(***************************************************************************)
NoWrite == [kind |-> "nowrite", Statements |-> <<>>]

P(n) == [Subcomponents |-> [i \in 1..n |-> "pkg"]]

\* The documents of the spec's examples, and a malformed file.
WrittenFiles ==
    { Malformed,
      Doc(<< [Status |-> "fixed", Products |-> <<P(3)>>],
             [Status |-> "fixed", Products |-> <<P(2)>>] >>),
      Doc(<< [Status |-> "not_affected", Products |-> <<P(1)>>] >>) }

\* A document an earlier run left behind.
StaleFile == Doc(<< [Status |-> "fixed", Products |-> <<P(1)>>] >>)

NoProc == [kind |-> "none", code |-> 0, stdout |-> "", stderr |-> "", writes |-> NoWrite]

Silent == [kind |-> "exit", code |-> 0, stdout |-> "", stderr |-> "", writes |-> NoWrite]

\* kind "exit": the process ran and exited with code; "startfail": it could
\* not be started (binary missing), which is not an *exec.ExitError.
ProcOutcomes ==
    {[Silent EXCEPT !.code = c, !.writes = w] : c \in 0..MaxExitCode, w \in {NoWrite} \cup WrittenFiles}
    \cup {[Silent EXCEPT !.code = c, !.stdout = "patching", !.stderr = "warning", !.writes = w] :
              c \in 0..MaxExitCode, w \in {NoWrite} \cup WrittenFiles}
    \cup {[Silent EXCEPT !.kind = "startfail"]}

Elapsed == 1..MaxElapsed   \* time.Since(startTime) across a write or a process run

\* Whether argv asks the patcher to write the VEX document.
WritesVex(argv) ==
    \E i \in 1..(Len(argv) - 1) : argv[i] = Arg("--output") /\ argv[i + 1] = Arg(VexFilePath)

\* What a process started with argv can do: it writes a file only when asked to.
ProcOutcomesFor(argv) == {p \in ProcOutcomes : p.writes = NoWrite \/ WritesVex(argv)}

\* The --output file after the process ran with argv.
FileAfter(argv, p, vf) ==
    IF p.kind = "exit" /\ p.writes # NoWrite /\ WritesVex(argv) THEN p.writes ELSE vf

(***************************************************************************)
(* ExecutionResult and execute.                                            *)
(***************************************************************************)
NilResult == [nil |-> TRUE]

NewResult ==
    [nil |-> FALSE, ExitCode |-> 0, Output |-> "", Error |-> "", Duration |-> 0,
     VexPath |-> "", UpdatedPackageCount |-> 0, FixedVulnerabilityCount |-> 0]

\* What cmd.Run() leaves in the two buffers: the process's streams reach the
\* buffers only if the writers are attached to the command that is run.
Captured(cmd, text) == IF cmd.attached THEN text ELSE ""

\* Mutant: the dry-run branch returns before the duration is measured.
dryRunResult_NoDuration(elapsed) == NewResult

\* The dry-run branch: only the duration is filled in.
dryRunResult(elapsed) == [NewResult EXCEPT !.Duration = elapsed]

execute(c, vf, p, elapsed) ==
    IF c.cmd.nil
    THEN [cli |-> c, result |-> NilResult,
          err |-> <<"no command built - call a Build method first">>,
          spawned |-> <<>>, vexFile |-> vf]
    ELSE IF c.dryRun
    THEN [cli |-> c, result |-> dryRunResult(elapsed),
          err |-> NoErr, spawned |-> <<>>, vexFile |-> vf]
    ELSE LET withWriters == [c.cmd EXCEPT !.attached = TRUE]
             run == Command(withWriters.Path, Tail1(withWriters.Args))
             c2 == [c EXCEPT !.cmd = run]
             failed == p.kind = "startfail" \/ p.code # 0
             res == [NewResult EXCEPT
                        !.Duration = elapsed,
                        !.Output = Captured(run, p.stdout),
                        !.Error = Captured(run, p.stderr),
                        !.VexPath = c2.vexPath,
                        !.ExitCode = IF p.kind = "exit" THEN p.code ELSE 0]
         IN [cli |-> c2, result |-> res,
             err |-> IF failed
                     THEN Wrap("command execution failed",
                               IF p.kind = "exit" THEN <<"exit status">>
                               ELSE <<"executable file not found">>)
                     ELSE NoErr,
             spawned |-> run.Args, vexFile |-> FileAfter(run.Args, p, vf)]

(***************************************************************************)
(* Run: validate, authenticate, execute, parse the VEX document.           *)
(***************************************************************************)
Stage(cond, name) == IF cond THEN <<name>> ELSE <<>>

Run(c, vf, reply, p, elapsed) ==
    LET v == validateCommand(c)
        a == setupAuth(c, reply)
        e == execute(a.cli, vf, p, elapsed)
        x == CLI_parseVexDoc(e.cli, e.cli.vexPath, e.vexFile)
        checked == Stage(v.stat, "stat")
        authed == checked \o <<"auth">>
        ran == authed \o Stage(e.spawned # <<>>, "spawn")
        parsed == ran \o Stage(x.read, "readvex")
    IN IF v.err # NoErr
       THEN [cli |-> c, result |-> NilResult,
             err |-> Wrap("command validation failed", v.err),
             calls |-> checked, spawned |-> <<>>, vexFile |-> vf]
       ELSE IF a.err # NoErr
       THEN [cli |-> a.cli, result |-> NilResult,
             err |-> Wrap("authentication setup failed", a.err),
             calls |-> authed, spawned |-> <<>>, vexFile |-> vf]
       ELSE IF e.err # NoErr
       THEN [cli |-> e.cli, result |-> e.result,
             err |-> Wrap("execution failed", e.err),
             calls |-> ran, spawned |-> e.spawned, vexFile |-> e.vexFile]
       ELSE [cli |-> e.cli,
             result |-> [e.result EXCEPT
                            !.FixedVulnerabilityCount = x.numFixedVulns,
                            !.UpdatedPackageCount = x.updatedPackageCount],
             err |-> IF x.err # NoErr THEN Wrap("parsing vex doc failed", x.err) ELSE NoErr,
             calls |-> parsed, spawned |-> e.spawned, vexFile |-> e.vexFile]

(***************************************************************************)
(* The state machine of one CLI object.                                    *)
(***************************************************************************)
NoVexIn == [path |-> "", file |-> Absent]

NoVexOut == [done |-> FALSE]

\* The other entry points of the server, not called on this CLI object.
NoPatchCall == patchIn = [tool |-> "none"] /\ patchOut = [done |-> FALSE]

NoPlatformCall == platIn = <<>> /\ platOut = [done |-> FALSE]

NoScanCall == scanIn = [Image |-> "", Platform |-> <<>>] /\ scanOut = [done |-> FALSE]

NoRequests == reqs = <<>> /\ tmp = <<>>

NoToolCall == toolIn = [name |-> "none"] /\ toolOut = [done |-> FALSE]

Init ==
    /\ request \in [params : PatchParamsConstraint, dryRun : BOOLEAN]
    /\ cli = New(request.params, request.dryRun)
    /\ vexFile \in {Absent, StaleFile}   \* what earlier runs left at VexFilePath
    /\ op = "New"
    /\ result = NilResult
    /\ err = NoErr
    /\ calls = <<>>
    /\ spawned = <<>>
    /\ proc = NoProc
    /\ authReply = "none"
    /\ pre = cli
    /\ vexIn = NoVexIn
    /\ vexOut = NoVexOut
    /\ NoPatchCall
    /\ NoPlatformCall
    /\ NoScanCall
    /\ NoRequests
    /\ NoToolCall

\* A builder call returns the CLI itself: nothing is run.
Built(name, c) ==
    /\ cli' = c
    /\ pre' = cli
    /\ op' = name
    /\ result' = NilResult
    /\ err' = NoErr
    /\ calls' = <<>>
    /\ spawned' = <<>>
    /\ proc' = NoProc
    /\ authReply' = "none"
    /\ UNCHANGED <<vexFile, request, vexIn, vexOut>>
    /\ UNCHANGED <<patchVars, platVars, scanVars, concVars, toolVars>>

CallBuild == Built("Build", Build(cli))

CallBuildWithPlatforms == Built("BuildWithPlatforms", BuildWithPlatforms(cli))

CallBuildWithReport == Built("BuildWithReport", BuildWithReport(cli))

\* What the subprocess did in a call: nothing when it was not spawned.
ProcOf(out, p) == IF out.spawned # <<>> THEN [p EXCEPT !.writes = NoWrite] ELSE NoProc

\* The inputs of a call are drawn only for the collaborators it reaches.
ProcsFor(probe) == IF probe.spawned # <<>> THEN ProcOutcomesFor(probe.spawned) ELSE {NoProc}

RepliesFor(probe) == IF Contains(probe.calls, "auth") THEN AuthReplies ELSE {"none"}

CallExecute ==
    \E p \in ProcsFor(execute(cli, vexFile, Silent, 1)), elapsed \in Elapsed :
      \E out \in {execute(cli, vexFile, p, elapsed)} :
           /\ cli' = out.cli
           /\ pre' = cli
           /\ op' = "execute"
           /\ result' = out.result
           /\ err' = out.err
           /\ calls' = Stage(out.spawned # <<>>, "spawn")
           /\ spawned' = out.spawned
           /\ proc' = ProcOf(out, p)
           /\ authReply' = "none"
           /\ vexFile' = out.vexFile
           /\ UNCHANGED <<request, vexIn, vexOut>>
           /\ UNCHANGED <<patchVars, platVars, scanVars, concVars, toolVars>>

CallRun ==
    \E reply \in RepliesFor(Run(cli, vexFile, "nologin", Silent, 1)) :
      \E p \in ProcsFor(Run(cli, vexFile, reply, Silent, 1)), elapsed \in Elapsed :
      \E out \in {Run(cli, vexFile, reply, p, elapsed)} :
           /\ cli' = out.cli
           /\ pre' = cli
           /\ op' = "Run"
           /\ result' = out.result
           /\ err' = out.err
           /\ calls' = out.calls
           /\ spawned' = out.spawned
           /\ proc' = ProcOf(out, p)
           /\ authReply' = reply
           /\ vexFile' = out.vexFile
           /\ UNCHANGED <<request, vexIn, vexOut>>
           /\ UNCHANGED <<patchVars, platVars, scanVars, concVars, toolVars>>

Next ==
    \/ CallBuild
    \/ CallBuildWithPlatforms
    \/ CallBuildWithReport
    \/ CallExecute
    \/ CallRun

Spec == Init /\ [][Next]_vars

(***************************************************************************)
(* The VEX parsers applied to one file: both are given the same path, the  *)
(* CLI one on a CLI whose vexPath is that path (as Run calls it).          *)
(***************************************************************************)
VexInit ==
    /\ vexIn \in [path : {"", VexFilePath}, file : FileContents]
    /\ vexOut = NoVexOut
    /\ request = [params |-> [shape |-> "ReportBasedPatchParams", Image |-> "alpine:3.17",
                              Tag |-> "", Push |-> FALSE, ReportPath |-> "/tmp/reports"],
                  dryRun |-> FALSE]
    /\ cli = [BuildWithReport(New(request.params, request.dryRun)) EXCEPT !.vexPath = vexIn.path]
    /\ vexFile = vexIn.file
    /\ op = "New"
    /\ result = NilResult
    /\ err = NoErr
    /\ calls = <<>>
    /\ spawned = <<>>
    /\ proc = NoProc
    /\ authReply = "none"
    /\ pre = cli
    /\ NoPatchCall
    /\ NoPlatformCall
    /\ NoScanCall
    /\ NoRequests
    /\ NoToolCall

ParseVexFile ==
    /\ ~vexOut.done
    /\ vexOut' = [done |-> TRUE,
                  cli |-> CLI_parseVexDoc(cli, vexIn.path, vexFile),
                  server |-> parseVexDoc(vexIn.path, vexFile)]
    /\ UNCHANGED <<cli, vexFile, op, result, err, calls, spawned, proc, authReply, pre,
                   request, vexIn>>
    /\ UNCHANGED <<patchVars, platVars, scanVars, concVars, toolVars>>

VexNext == ParseVexFile

SpecVex == VexInit /\ [][VexNext]_vars

(***************************************************************************)
(* Strings that the code takes apart or puts together (image references,   *)
(* tags, output image names) are held as the sequence of their atoms: the  *)
(* separators ":", "/", "@", "-" and the words between them.  Equal        *)
(* sequences are equal strings.                                            *)
(***************************************************************************)
\* The element of a one-element set.  {e(x) : x \in {v}} is e with v computed
\* once and used under the name x, as a local variable of the code is.
TheOne(S) == CHOOSE x \in S : TRUE

\* strings.Split(s, sep): the parts of s between the occurrences of sep.
RECURSIVE Split(_, _)
Split(s, sep) ==
    IF ~Contains(s, sep) THEN <<s>>
    ELSE LET i == CHOOSE k \in DOMAIN s : s[k] = sep /\ \A j \in 1..(k - 1) : s[j] # sep
         IN <<SubSeq(s, 1, i - 1)>> \o Split(SubSeq(s, i + 1, Len(s)), sep)

\* strings.Join(parts, sep) over parts that are themselves strings.
RECURSIVE Concat(_, _)
Concat(parts, sep) ==
    IF parts = <<>> THEN <<>>
    ELSE IF Len(parts) = 1 THEN parts[1]
    ELSE parts[1] \o <<sep>> \o Concat(Tail(parts), sep)

\* strings.SplitN(s, sep, 2)
SplitN2(s, sep) ==
    TheOne({ IF Len(parts) <= 2 THEN parts ELSE <<parts[1], Concat(Tail(parts), sep)>> :
             parts \in {Split(s, sep)} })

HasPrefix(s, prefix) == Len(s) >= Len(prefix) /\ SubSeq(s, 1, Len(prefix)) = prefix

TrimPrefix(s, prefix) == IF HasPrefix(s, prefix) THEN SubSeq(s, Len(prefix) + 1, Len(s)) ELSE s

\* The words that have a '.' in them.
DottedWords == {"docker.io", "index.docker.io", "ghcr.io", "3.17"}

ContainsDot(s) == \E i \in DOMAIN s : s[i] \in DottedWords

(***************************************************************************)
(* name.ParseReference of go-containerregistry, as copa.Run and            *)
(* patchImageComprehensive call it (weak validation, default options).     *)
(***************************************************************************)
DefaultRegistry == <<"index.docker.io">>

defaultRegistryAlias == <<"docker.io">>

defaultNamespace == <<"library">>

defaultTag == <<"latest">>

BadName == <<"could not parse reference">>

\* name.NewRegistry: the empty host is the default registry, and so is its alias.
NewRegistry(host) ==
    IF host = <<>> \/ host = defaultRegistryAlias THEN DefaultRegistry ELSE host

\* name.NewRepository: the first part is the registry iff it has a '.' or a ':'.
NewRepository(s) ==
    TheOne({
        LET explicit == Len(parts) = 2 /\ (ContainsDot(parts[1]) \/ Contains(parts[1], ":"))
            repo == IF explicit THEN parts[2] ELSE s
        IN [err |-> IF s = <<>> \/ repo = <<>> \/ Contains(repo, "@") \/ Contains(repo, ":")
                    THEN BadName ELSE NoErr,
            Registry |-> NewRegistry(IF explicit THEN parts[1] ELSE <<>>),
            repository |-> repo] :
        parts \in {SplitN2(s, "/")} })

\* name.NewTag: the text after the last ':' is the tag unless it has a '/'.
NewTag(s) ==
    TheOne({
        LET tagged == Len(parts) > 1 /\ ~Contains(parts[Len(parts)], "/")
            base == IF tagged THEN Concat(SubSeq(parts, 1, Len(parts) - 1), ":") ELSE s
        IN TheOne({ [err |-> repo.err, kind |-> "tag", Registry |-> repo.Registry,
                     repository |-> repo.repository,
                     tag |-> IF tagged THEN parts[Len(parts)] ELSE <<>>] :
                    repo \in {NewRepository(base)} }) :
        parts \in {Split(s, ":")} })

\* name.NewDigest: the text after '@' is the digest.
NewDigest(s) ==
    TheOne({ [err |-> IF Len(parts) # 2 THEN BadName ELSE repo.err, kind |-> "digest",
              Registry |-> repo.Registry, repository |-> repo.repository, tag |-> <<>>] :
             parts \in {Split(s, "@")}, repo \in {NewTag(Split(s, "@")[1])} })

ParseReference(s) ==
    TheOne({ IF tag.err = NoErr THEN tag
             ELSE IF digest.err = NoErr THEN digest
             ELSE [tag EXCEPT !.err = BadName, !.kind = "none"] :
             tag \in {NewTag(s)}, digest \in {NewDigest(s)} })

hasImplicitNamespace(ref) == ~Contains(ref.repository, "/") /\ ref.Registry = DefaultRegistry

\* Repository.RepositoryStr: the path, with the default namespace made explicit.
RepositoryStr(ref) ==
    IF hasImplicitNamespace(ref) THEN defaultNamespace \o <<"/">> \o ref.repository
    ELSE ref.repository

\* Repository.String: the registry and the path.
RepositoryString(ref) == ref.Registry \o <<"/">> \o RepositoryStr(ref)

TagStr(ref) == IF ref.tag # <<>> THEN ref.tag ELSE defaultTag

\* The image references of the requests.
ImageRefs ==
    { <<>>,
      <<"alpine", ":", "3.17">>,
      <<"alpine">>,
      <<"docker.io", "/", "library", "/", "alpine", ":", "3.17">>,
      <<"ghcr.io", "/", "library", "/", "alpine", ":", "3.17">>,
      <<"ghcr.io", "/", "org", "/", "app", ":", "3.17">>,
      <<"org", "/", "app", ":", "3.17">>,
      <<"localhost", ":", "5000", "/", "app">>,
      <<"alpine", "@", "sha256", ":", "abc">> }

PatchTags == {<<>>, <<"patched">>}

(***************************************************************************)
(* PlatformToArch (multiplatform package).                                 *)
(***************************************************************************)
\* strings.Split(platform, "/") of the platform strings of the model.
PlatformParts(platform) ==
    CASE platform = "linux/amd64" -> <<"linux", "amd64">>
      [] platform = "linux/arm64" -> <<"linux", "arm64">>
      [] platform = "linux/arm64/v8" -> <<"linux", "arm64", "v8">>
      [] platform = "linux/arm/v7" -> <<"linux", "arm", "v7">>
      [] platform = "linux/arm/v6" -> <<"linux", "arm", "v6">>
      [] platform = "linux/386" -> <<"linux", "386">>
      [] platform = "linux/ppc64le" -> <<"linux", "ppc64le">>
      [] platform = "linux/s390x" -> <<"linux", "s390x">>
      [] platform = "linux/riscv64" -> <<"linux", "riscv64">>
      [] platform = "windows/amd64" -> <<"windows", "amd64">>
      [] platform = "darwin/amd64" -> <<"darwin", "amd64">>
      [] platform = "linux/mips" -> <<"linux", "mips">>
      [] platform = "linux/amd64/v2" -> <<"linux", "amd64", "v2">>
      [] platform = "linux/arm64/v9" -> <<"linux", "arm64", "v9">>
      [] platform = "linux/arm/v8" -> <<"linux", "arm", "v8">>
      [] OTHER -> <<platform>>

PlatformToArch(platform) ==
    LET parts == PlatformParts(platform)
    IN IF Len(parts) < 2 THEN Join(parts, "/")
       ELSE IF Len(parts) > 2 THEN <<parts[2], "-", parts[3]>>
       ELSE <<parts[2]>>

(***************************************************************************)
(* copa.Run (copa.go): the arguments of the patcher and the predicted      *)
(* output images, built from the legacy PatchParams.                       *)
(***************************************************************************)
patchedSuffix == <<"-", "patched">>

\* fmt.Sprintf("%s:%s", repository, tag)
ImageName(repository, tag) == repository \o <<":">> \o tag

\* fmt.Sprintf("%s:%s-%s", repository, tag, arch)
PlatformImageName(repository, tag, arch) == repository \o <<":">> \o tag \o <<"-">> \o arch

PatchParams(image, tag, push, platform, scan) ==
    [Image |-> image, Tag |-> tag, Push |-> push, Platform |-> platform, Scan |-> scan]

\* Mutant: the platform flag is appended whatever the request.
usePlatformSpecificTags_Always(params) == TRUE

usePlatformSpecificTags(params) ==
    Len(params.Platform) > 0 /\ (params.Scan \/ params.Tag = <<>>)

\* The part of Run before the patcher is started.
copaArgs(params, reportPath) ==
    TheOne({
        LET tagged == ref.kind = "tag"
            tag == IF tagged THEN TagStr(ref) ELSE <<>>
            repository == IF tagged THEN TrimPrefix(RepositoryStr(ref), <<"library", "/">>)
                          ELSE <<>>
            Tag == IF params.Tag # <<>> THEN params.Tag ELSE tag \o patchedSuffix
            vexPath == IF reportPath # "" THEN VexFilePath ELSE ""
            customTagProvided == params.Tag # <<>>
            single == IF customTagProvided /\ ~platformSpecific
                      THEN <<ImageName(repository, params.Tag)>> ELSE <<>>
            fallback == IF Tag = <<>> /\ Len(params.Platform) <= 0
                        THEN <<ImageName(repository, Tag)>> ELSE single
            args == <<Arg("patch"), Arg("--image"), params.Image>>
                    \o (IF reportPath # ""
                        THEN Args(<<"--report", reportPath, "--output", vexPath>>) ELSE <<>>)
                    \o (IF customTagProvided THEN <<Arg("--tag"), params.Tag>> ELSE <<>>)
                    \o (IF platformSpecific
                        THEN <<Arg("--platform"), Join(params.Platform, ",")>> ELSE <<>>)
                    \o (IF params.Push THEN <<Arg("--push")>> ELSE <<>>)
        IN IF ref.err # NoErr
           THEN [err |-> Wrap("failed to parse image reference", ref.err), args |-> <<>>,
                 patchedImage |-> <<>>, vexPath |-> "", tag |-> <<>>]
           ELSE [err |-> NoErr, args |-> args,
                 patchedImage |->
                     IF platformSpecific
                     THEN [i \in DOMAIN params.Platform |->
                              PlatformImageName(repository, Tag,
                                                PlatformToArch(params.Platform[i]))]
                     ELSE fallback,
                 vexPath |-> vexPath, tag |-> Tag] :
        ref \in {ParseReference(params.Image)},
        platformSpecific \in {usePlatformSpecificTags(params)} })

\* Run: build the arguments, start the patcher (p is what it does), return.
copa_Run(params, reportPath, p) ==
    TheOne({
        LET argv == <<Arg("copa")>> \o b.args
            failed == p.kind = "startfail" \/ p.code # 0
        IN IF b.err # NoErr
           THEN [err |-> b.err, vexPath |-> "", patchedImage |-> <<>>, args |-> <<>>,
                 spawned |-> <<>>, tag |-> <<>>]
           ELSE IF failed
           THEN [err |-> <<"Copa command failed", p.stderr>>, vexPath |-> "",
                 patchedImage |-> <<>>, args |-> b.args, spawned |-> argv, tag |-> b.tag]
           ELSE [err |-> NoErr, vexPath |-> b.vexPath, patchedImage |-> b.patchedImage,
                 args |-> b.args, spawned |-> argv, tag |-> b.tag] :
        b \in {copaArgs(params, reportPath)} })

RunReportBased(params, reportPath, p) ==
    copa_Run(PatchParams(params.Image, params.Tag, params.Push, <<>>, TRUE), reportPath, p)

RunPlatformSelective(params, p) ==
    copa_Run(PatchParams(params.Image, params.Tag, params.Push, params.Platform, FALSE), "", p)

RunComprehensive(params, p) ==
    copa_Run(PatchParams(params.Image, params.Tag, params.Push, <<>>, FALSE), "", p)

(***************************************************************************)
(* The platform table of the multiplatform package (a second copy of the   *)
(* one in the copa package).                                               *)
(***************************************************************************)
multiplatform_CopaSupportedPlatforms ==
    << "linux/amd64", "linux/arm64", "linux/arm/v7", "linux/arm/v6",
       "linux/386", "linux/ppc64le", "linux/s390x", "linux/riscv64" >>

\* Mutant: every variant of a table entry is taken for the entry.
multiplatform_IsPlatformSupported_AnyVariant(platform) ==
    \E i \in DOMAIN multiplatform_CopaSupportedPlatforms :
        LET supported == PlatformParts(multiplatform_CopaSupportedPlatforms[i])
            parts == PlatformParts(platform)
        IN Len(parts) >= Len(supported) /\ SubSeq(parts, 1, Len(supported)) = supported

multiplatform_IsPlatformSupported(platform) ==
    \E i \in DOMAIN multiplatform_CopaSupportedPlatforms :
        \/ platform = multiplatform_CopaSupportedPlatforms[i]
        \/ /\ multiplatform_CopaSupportedPlatforms[i] = "linux/arm64"
           /\ (platform = "linux/arm64/v8" \/ platform = "linux/arm64")

\* Mutant: the arm64 variant is rewritten to the table's spelling.
multiplatform_FilterSupportedPlatforms_Canonical(platforms) ==
    LET kept == SelectSeq(platforms, multiplatform_IsPlatformSupported)
    IN [i \in DOMAIN kept |-> IF kept[i] = "linux/arm64/v8" THEN "linux/arm64" ELSE kept[i]]

multiplatform_FilterSupportedPlatforms(platforms) ==
    SelectSeq(platforms, multiplatform_IsPlatformSupported)

GetUnsupportedPlatforms(platforms) ==
    SelectSeq(platforms, LAMBDA p : ~multiplatform_IsPlatformSupported(p))

GetAllSupportedPlatforms == multiplatform_CopaSupportedPlatforms

(***************************************************************************)
(* The patch tool handlers built on copa.Run: PatchVulnerabilities,        *)
(* PatchPlatforms, PatchComprehensive and the three patchImage* flows.     *)
(***************************************************************************)
\* What a handler did and returned.
PatchOutcome(e, run, images, counts, vf) ==
    [done |-> TRUE, err |-> e, args |-> run.args, spawned |-> run.spawned,
     tag |-> run.tag, vexPath |-> run.vexPath, patchedImage |-> images,
     numFixedVulns |-> counts.numFixedVulns,
     updatedPackageCount |-> counts.updatedPackageCount, file |-> vf]

NotRun == [args |-> <<>>, spawned |-> <<>>, tag |-> <<>>, vexPath |-> "", err |-> NoErr,
           patchedImage |-> <<>>]

NoCounts == [numFixedVulns |-> 0, updatedPackageCount |-> 0]

Rejected(msg, vf) == PatchOutcome(<<msg>>, NotRun, <<>>, NoCounts, vf)

patchImageReportBased(params, vf, p) ==
    TheOne({
        LET after == IF run.spawned # <<>> THEN FileAfter(run.spawned, p, vf) ELSE vf
        IN TheOne({
               IF run.err # NoErr
               THEN PatchOutcome(Wrap("copa report-based patching failed", run.err),
                                 run, <<>>, NoCounts, after)
               ELSE IF x.err # NoErr
               THEN PatchOutcome(Wrap("failed to parse vex document", x.err),
                                 run, <<>>, NoCounts, after)
               ELSE PatchOutcome(NoErr, run, run.patchedImage, x, Absent) :   \* os.RemoveAll
               x \in {parseVexDoc(run.vexPath, after)} }) :
        run \in {RunReportBased(params, params.ReportPath, p)} })

PatchVulnerabilities(args, vf, p) ==
    IF args.Image = <<>> THEN Rejected("image parameter is required", vf)
    ELSE IF args.ReportPath = "" THEN Rejected("reportPath parameter is required", vf)
    ELSE IF IsNotExist(Stat(args.ReportPath)) THEN Rejected("report directory does not exist", vf)
    ELSE patchImageReportBased(args, vf, p)

patchImagePlatformSelective(params, vf, p) ==
    TheOne({ IF run.err # NoErr
             THEN PatchOutcome(Wrap("copa platform-selective patching failed", run.err),
                               run, <<>>, NoCounts, vf)
             ELSE PatchOutcome(NoErr, run, run.patchedImage, NoCounts, vf) :
             run \in {RunPlatformSelective(params, p)} })

PatchPlatforms(args, vf, p) ==
    IF args.Image = <<>> THEN Rejected("image parameter is required", vf)
    ELSE IF Len(args.Platform) = 0
    THEN Rejected("at least one platform must be specified for platform-selective patching", vf)
    ELSE patchImagePlatformSelective(args, vf, p)

\* multiplatform.GetImageInfo: what the docker daemon or the registry says.
ImageInfos ==
    { [err |-> TRUE, IsLocal |-> FALSE, IsMultiPlatform |-> FALSE, Platform |-> <<>>],
      [err |-> FALSE, IsLocal |-> TRUE, IsMultiPlatform |-> TRUE, Platform |-> <<"linux/amd64">>],
      [err |-> FALSE, IsLocal |-> FALSE, IsMultiPlatform |-> TRUE,
       Platform |-> <<"linux/amd64", "windows/amd64", "linux/arm/v7">>],
      [err |-> FALSE, IsLocal |-> TRUE, IsMultiPlatform |-> FALSE, Platform |-> <<"linux/amd64">>],
      [err |-> FALSE, IsLocal |-> FALSE, IsMultiPlatform |-> FALSE,
       Platform |-> <<"linux/amd64">>] }

NoInfo == [err |-> FALSE, IsLocal |-> FALSE, IsMultiPlatform |-> FALSE, Platform |-> <<>>]

\* The repository of the expected image names of the comprehensive flow.
expectedRepository(ref) ==
    IF ref.kind # "tag" THEN <<>>
    ELSE IF ref.Registry = DefaultRegistry
    THEN IF HasPrefix(RepositoryStr(ref), <<"library", "/">>)
         THEN TrimPrefix(RepositoryStr(ref), <<"library", "/">>)
         ELSE <<"docker.io", "/">> \o RepositoryStr(ref)
    ELSE RepositoryString(ref)

patchImageComprehensive(params, info, vf, p) ==
    LET expectedPlatforms ==
            IF info.IsLocal /\ info.IsMultiPlatform THEN GetAllSupportedPlatforms
            ELSE IF ~info.IsLocal /\ info.IsMultiPlatform
            THEN multiplatform_FilterSupportedPlatforms(info.Platform)
            ELSE info.Platform
    IN TheOne({
           LET repository == expectedRepository(ref)
               expectedImages ==
                   IF info.IsMultiPlatform
                   THEN [i \in DOMAIN expectedPlatforms |->
                            PlatformImageName(repository,
                                              IF params.Tag = <<>> THEN <<"patched">>
                                              ELSE params.Tag,
                                              PlatformToArch(expectedPlatforms[i]))]
                   ELSE <<ImageName(repository, params.Tag)>>
           IN IF info.err THEN Rejected("failed to get image info", vf)
              ELSE IF ref.err # NoErr
              THEN PatchOutcome(Wrap("failed to parse image reference", ref.err),
                                NotRun, <<>>, NoCounts, vf)
              ELSE IF run.err # NoErr
              THEN PatchOutcome(Wrap("copa comprehensive patching failed", run.err),
                                run, <<>>, NoCounts, vf)
              ELSE PatchOutcome(NoErr, run, expectedImages, NoCounts, vf) :
           ref \in {ParseReference(params.Image)}, run \in {RunComprehensive(params, p)} })

PatchComprehensive(args, info, vf, p) ==
    IF args.Image = <<>> THEN Rejected("image parameter is required", vf)
    ELSE patchImageComprehensive(args, info, vf, p)

(***************************************************************************)
(* One call of a patch tool handler built on copa.Run.                     *)
(***************************************************************************)
\* The CLI object is not used by these entry points.
NoCliCall ==
    /\ request = [params |-> [shape |-> "ComprehensivePatchParams", Image |-> "",
                              Tag |-> "", Push |-> FALSE],
                  dryRun |-> FALSE]
    /\ cli = New(request.params, request.dryRun)
    /\ vexFile = Absent
    /\ op = "New"
    /\ result = NilResult
    /\ err = NoErr
    /\ calls = <<>>
    /\ spawned = <<>>
    /\ proc = NoProc
    /\ authReply = "none"
    /\ pre = cli
    /\ vexIn = NoVexIn
    /\ vexOut = NoVexOut

RequestedPlatformNames ==
    {"linux/amd64", "linux/arm64", "linux/arm/v7", "windows/amd64", "amd64"}

RequestedPlatforms == SeqsUpTo(RequestedPlatformNames, MaxPlatforms)

PatchCalls ==
    [tool : {"patch-vulnerabilities"},
     args : [Image : ImageRefs, Tag : PatchTags, Push : BOOLEAN, ReportPath : ReportPaths],
     info : {NoInfo}, file : {Absent, StaleFile}]
    \cup [tool : {"patch-platforms"},
          args : [Image : ImageRefs, Tag : PatchTags, Push : BOOLEAN,
                  Platform : RequestedPlatforms],
          info : {NoInfo}, file : {Absent}]
    \cup [tool : {"patch-comprehensive"},
          args : [Image : ImageRefs, Tag : PatchTags, Push : BOOLEAN],
          info : ImageInfos, file : {Absent}]

PatchInit ==
    /\ patchIn \in PatchCalls
    /\ patchOut = [done |-> FALSE]
    /\ NoCliCall
    /\ NoPlatformCall
    /\ NoScanCall
    /\ NoRequests
    /\ NoToolCall

\* The handler returns out; patchOut is what it returned and what was started.
Returned(out, p) == patchOut' = [proc |-> ProcOf(out, p)] @@ out

CallPatchVulnerabilities ==
    /\ patchIn.tool = "patch-vulnerabilities"
    /\ ~patchOut.done
    /\ \E p \in ProcsFor(PatchVulnerabilities(patchIn.args, patchIn.file, Silent)) :
         Returned(PatchVulnerabilities(patchIn.args, patchIn.file, p), p)
    /\ UNCHANGED <<patchIn, cliVars, vexVars, platVars, scanVars, concVars, toolVars>>

CallPatchPlatforms ==
    /\ patchIn.tool = "patch-platforms"
    /\ ~patchOut.done
    /\ \E p \in ProcsFor(PatchPlatforms(patchIn.args, patchIn.file, Silent)) :
         Returned(PatchPlatforms(patchIn.args, patchIn.file, p), p)
    /\ UNCHANGED <<patchIn, cliVars, vexVars, platVars, scanVars, concVars, toolVars>>

CallPatchComprehensive ==
    /\ patchIn.tool = "patch-comprehensive"
    /\ ~patchOut.done
    /\ \E p \in ProcsFor(PatchComprehensive(patchIn.args, patchIn.info, patchIn.file, Silent)) :
         Returned(PatchComprehensive(patchIn.args, patchIn.info, patchIn.file, p), p)
    /\ UNCHANGED <<patchIn, cliVars, vexVars, platVars, scanVars, concVars, toolVars>>

PatchNext ==
    \/ CallPatchVulnerabilities
    \/ CallPatchPlatforms
    \/ CallPatchComprehensive

SpecPatch == PatchInit /\ [][PatchNext]_vars

(***************************************************************************)
(* The platform predicates of both packages applied to one platform list.  *)
(***************************************************************************)
MaxListed == 3           \* longest platform list given to the filters

\* The strings asked about one at a time: the table, the arm64 variant, and
\* strings that are not in the table.
QueriedPlatforms ==
    {"linux/amd64", "linux/arm64", "linux/arm/v7", "linux/arm/v6", "linux/386",
     "linux/ppc64le", "linux/s390x", "linux/riscv64", "linux/arm64/v8",
     "", "windows/amd64", "darwin/amd64", "linux/mips",
     "linux/amd64/v2", "linux/arm64/v9", "linux/arm/v8", "amd64"}

\* The strings the lists are made of.
ListedPlatforms == {"linux/amd64", "windows/amd64", "linux/arm64", "linux/arm64/v8", "linux/arm/v8"}

PlatformQueries == [1..1 -> QueriedPlatforms] \cup SeqsUpTo(ListedPlatforms, MaxListed)

PlatformInit ==
    /\ platIn \in PlatformQueries
    /\ platOut = [done |-> FALSE]
    /\ NoCliCall
    /\ NoPatchCall
    /\ NoScanCall
    /\ NoRequests
    /\ NoToolCall

CheckPlatforms ==
    /\ ~platOut.done
    /\ platOut' =
         [done |-> TRUE,
          copa |-> [supported |-> [i \in DOMAIN platIn |-> IsPlatformSupported(platIn[i])],
                    filtered |-> FilterSupportedPlatforms(platIn),
                    twice |-> FilterSupportedPlatforms(FilterSupportedPlatforms(platIn))],
          multiplatform |->
              [supported |-> [i \in DOMAIN platIn |->
                                 multiplatform_IsPlatformSupported(platIn[i])],
               filtered |-> multiplatform_FilterSupportedPlatforms(platIn),
               twice |-> multiplatform_FilterSupportedPlatforms(
                             multiplatform_FilterSupportedPlatforms(platIn))]]
    /\ UNCHANGED <<platIn, cliVars, vexVars, patchVars, scanVars, concVars, toolVars>>

PlatformNext == CheckPlatforms

SpecPlatform == PlatformInit /\ [][PlatformNext]_vars

(***************************************************************************)
(* The scan tool: ScanContainer, trivy.Scan, trivy.Run and the counting of *)
(* the vulnerabilities in the report files.                                *)
(***************************************************************************)
MaxVulns == 1            \* most vulnerabilities of one result of a report
MaxResults == 2          \* most results of one report file

ReportDir == <<"/tmp/reports-1">>   \* os.MkdirTemp(os.TempDir(), "reports-*")

\* filepath.Join(dir, name)
PathJoin(dir, name) == dir \o <<"/">> \o name

trivyArgs == Args(<<"image", "--vuln-type", "os", "--ignore-unfixed", "-f", "json">>)

\* Mutant: the platform string is used as the file name as it is.
reportFile_SlashesKept(p) == Join(PlatformParts(p), "/") \o <<".json">>

\* strings.ReplaceAll(p, "/", "-") + ".json"
reportFile(p) == Join(PlatformParts(p), "-") \o <<".json">>

hostArgs(reportPath, image) ==
    trivyArgs \o <<Arg("-o"), PathJoin(reportPath, <<"report", ".json">>), Arg(image)>>

platformArgs(reportPath, image, p) ==
    trivyArgs \o Args(<<"--image-src", "remote", "--platform", p>>)
              \o <<Arg("-o"), PathJoin(reportPath, reportFile(p)), Arg(image)>>

\* What one run of the scanner does: how it ends and what it leaves in the
\* file named by -o (a report with some vulnerabilities, text that is not
\* a report, or nothing).
\* A report is {Results: [{Vulnerabilities: [...]}]}: the Vulnerabilities array
\* of each of its results.
Report(results) == [kind |-> "report", Results |-> results]

NotAReport == [kind |-> "malformed", Results |-> <<>>]

NothingWritten == [kind |-> "nowrite", Results |-> <<>>]

Vulnerabilities == SeqsUpTo({"CVE"}, MaxVulns)

\* The reports of at most n results.
ReportsUpTo(n) == {Report(results) : results \in SeqsUpTo(Vulnerabilities, n)}

ScannerOutcomesOver(reports) ==
    {[kind |-> "exit", code |-> 0, writes |-> r] : r \in reports}
    \cup {[kind |-> "exit", code |-> 0, writes |-> NotAReport]}
    \cup {[kind |-> "exit", code |-> c, writes |-> w] :
              c \in 1..MaxExitCode, w \in {NothingWritten, NotAReport}}
    \cup {[kind |-> "startfail", code |-> 0, writes |-> NothingWritten]}

\* The scanner on an image whose report has a single result at most.
ScannerOutcomes == ScannerOutcomesOver(ReportsUpTo(1))

\* Mutant: a failed scanner run is not noticed.
runFailed_Never(p) == FALSE

\* err != nil of trivyCmd.Run()
runFailed(p) == p.kind = "startfail" \/ p.code # 0

\* The report directory after a run wrote (or did not write) its -o file.
WriteFile(files, name, content) ==
    IF content = NothingWritten THEN files
    ELSE {f \in files : f.name # name} \cup {[name |-> name, content |-> content]}

\* exec.Command("trivy", args...).Run() as the next run of a call.
trivyCmd(st, args, name, p) ==
    [runs |-> Append(st.runs, [argv |-> <<Arg("trivy")>> \o args, outcome |-> p]),
     files |-> WriteFile(st.files, name, p.writes),
     err |-> IF runFailed(p) THEN <<"trivy command failed">> ELSE NoErr]

\* The loop over the platforms, from the i-th on.
RECURSIVE scanPlatforms(_, _, _, _, _, _)
scanPlatforms(reportPath, image, platform, outs, i, st) ==
    IF i > Len(platform) THEN st
    ELSE LET next == trivyCmd(st, platformArgs(reportPath, image, platform[i]),
                              reportFile(platform[i]), outs[i])
         IN IF next.err # NoErr THEN next
            ELSE scanPlatforms(reportPath, image, platform, outs, i + 1, next)

NoRuns == [runs |-> <<>>, files |-> {}, err |-> NoErr]

\* trivy.Run: mkdir says whether the report directory could be made, outs
\* what the scanner runs do, in the order they are made.
trivy_Run(image, platform, mkdir, outs) ==
    LET st == IF Len(platform) = 0
              THEN trivyCmd(NoRuns, hostArgs(ReportDir, image), <<"report", ".json">>, outs[1])
              ELSE scanPlatforms(ReportDir, image, platform, outs, 1, NoRuns)
    IN IF ~mkdir
       THEN [reportPath |-> <<>>, dir |-> FALSE, runs |-> <<>>, files |-> {},
             err |-> <<"failed to create temporary report directory">>]
       ELSE [reportPath |-> IF st.err # NoErr THEN <<>> ELSE ReportDir, dir |-> TRUE,
             runs |-> st.runs, files |-> st.files, err |-> st.err]

\* totalVulns += len(result.Vulnerabilities), over the results from the i-th on.
RECURSIVE SumResults(_, _)
SumResults(results, i) ==
    IF i > Len(results) THEN 0 ELSE Len(results[i]) + SumResults(results, i + 1)

\* Mutant: only the first result of a report is counted.
countVulnerabilitiesInFile_FirstResult(content) ==
    IF content.kind # "report" THEN [n |-> 0, err |-> <<"failed to parse JSON report">>]
    ELSE [n |-> IF content.Results = <<>> THEN 0 ELSE Len(content.Results[1]), err |-> NoErr]

\* countVulnerabilitiesInFile: json.Unmarshal, then the sum over the results.
countVulnerabilitiesInFile(content) ==
    IF content.kind # "report" THEN [n |-> 0, err |-> <<"failed to parse JSON report">>]
    ELSE [n |-> SumResults(content.Results, 1), err |-> NoErr]

\* The loop of countVulnerabilitiesInReport over the entries not yet read.
RECURSIVE SumVulns(_)
SumVulns(files) ==
    IF files = {} THEN 0
    ELSE LET f == CHOOSE x \in files : TRUE
         IN countVulnerabilitiesInFile(f.content).n + SumVulns(files \ {f})

\* countVulnerabilitiesInReport over the files of the report directory (all
\* of them are .json files): the first file that fails ends the count.
countVulnerabilitiesInReport(files) ==
    IF \E f \in files : countVulnerabilitiesInFile(f.content).err # NoErr
    THEN [n |-> 0, err |-> <<"failed to count vulnerabilities in", "failed to parse JSON report">>]
    ELSE [n |-> SumVulns(files), err |-> NoErr]

NilScanResult == [nil |-> TRUE]

trivy_Scan(params, mkdir, outs) ==
    LET run == trivy_Run(params.Image, params.Platform, mkdir, outs)
        count == countVulnerabilitiesInReport(run.files)
    IN IF run.err # NoErr
       THEN [done |-> TRUE, result |-> NilScanResult,
             err |-> Wrap("vulnerability scan failed", run.err),
             runs |-> run.runs, files |-> run.files, dir |-> run.dir]
       ELSE [done |-> TRUE,
             result |-> [nil |-> FALSE, Image |-> params.Image, ReportPath |-> run.reportPath,
                         VulnCount |-> IF count.err # NoErr THEN 0 ELSE count.n,
                         Platforms |-> IF Len(params.Platform) = 0
                                       THEN <<"host platform">> ELSE params.Platform,
                         ScanCompleted |-> TRUE],
             err |-> NoErr, runs |-> run.runs, files |-> run.files, dir |-> run.dir]

ScanContainer(args, mkdir, outs) ==
    IF args.Image = ""
    THEN [done |-> TRUE, result |-> NilScanResult, err |-> <<"image parameter is required">>,
          runs |-> <<>>, files |-> {}, dir |-> FALSE]
    ELSE trivy_Scan(args, mkdir, outs)

(***************************************************************************)
(* One call of the scan tool.                                              *)
(***************************************************************************)
ScannedPlatformNames == {"linux/amd64", "linux/arm/v7", "linux/arm64"}

ScanParams == [Image : Images, Platform : SeqsUpTo(ScannedPlatformNames, MaxPlatforms)]

ScanInit ==
    /\ scanIn \in ScanParams
    /\ scanOut = [done |-> FALSE]
    /\ NoCliCall
    /\ NoPatchCall
    /\ NoPlatformCall
    /\ NoRequests
    /\ NoToolCall

\* The outcomes of the runs a call can make: after a run that stops the
\* call there is no further run to draw an outcome for.
RunOutcomesOver(outcomes, n) ==
    {o \in [1..n -> outcomes] : \A i \in 2..n : runFailed(o[i - 1]) => o[i] = o[i - 1]}

RunOutcomes(n) == RunOutcomesOver(ScannerOutcomes, n)

ScanInputsOver(outcomes, args) ==
    IF args.Image = "" THEN {[mkdir |-> FALSE, outs |-> <<>>]}
    ELSE {[mkdir |-> FALSE, outs |-> <<>>]}
         \cup [mkdir : {TRUE},
               outs : RunOutcomesOver(outcomes,
                                      IF Len(args.Platform) = 0 THEN 1 ELSE Len(args.Platform))]

ScanInputs(args) == ScanInputsOver(ScannerOutcomes, args)

CallScanContainer ==
    /\ ~scanOut.done
    /\ \E in \in ScanInputs(scanIn) :
         scanOut' = ScanContainer(scanIn, in.mkdir, in.outs)
    /\ UNCHANGED <<scanIn, cliVars, vexVars, patchVars, platVars, concVars, toolVars>>

ScanNext == CallScanContainer

SpecScan == ScanInit /\ [][ScanNext]_vars

(***************************************************************************)
(* One call of the scan tool on images whose reports have several results. *)
(***************************************************************************)
ReportedPlatforms ==
    { <<>>, <<"linux/amd64">>, <<"linux/amd64", "linux/arm/v7">>,
      <<"linux/arm/v7", "linux/amd64">>, <<"linux/amd64", "linux/amd64">> }

ReportsInit ==
    /\ scanIn \in [Image : {"alpine:3.17"}, Platform : ReportedPlatforms]
    /\ scanOut = [done |-> FALSE]
    /\ NoCliCall
    /\ NoPatchCall
    /\ NoPlatformCall
    /\ NoRequests
    /\ NoToolCall

CallScanContainerReports ==
    /\ ~scanOut.done
    /\ \E in \in ScanInputsOver(ScannerOutcomesOver(ReportsUpTo(MaxResults)), scanIn) :
         scanOut' = ScanContainer(scanIn, in.mkdir, in.outs)
    /\ UNCHANGED <<scanIn, cliVars, vexVars, patchVars, platVars, concVars, toolVars>>

ReportsNext == CallScanContainerReports

SpecScanReports == ReportsInit /\ [][ReportsNext]_vars

(***************************************************************************)
(* Report-based patch requests served at the same time (one goroutine or   *)
(* one server process each): patchImageReportBased over copa.Run, with the *)
(* files of os.TempDir() shared between them.  A request is at "received", *)
(* "patching" (the patcher runs), "returned" (Run returned the VEX path),  *)
(* "parsed" (parseVexDoc returned) or "done".                              *)
(***************************************************************************)
Requests == {"a", "b"}

ReportRequest ==
    [Image |-> <<"alpine", ":", "3.17">>, Tag |-> <<"patched">>, Push |-> FALSE,
     ReportPath |-> "/tmp/reports"]

\* The VEX document the patcher writes for a request: one fixed statement
\* for "a", two for "b".
DocOf(r) ==
    IF r = "a" THEN Doc(<< [Status |-> "fixed", Products |-> <<P(1)>>] >>)
    ELSE Doc(<< [Status |-> "fixed", Products |-> <<P(1)>>],
                [Status |-> "fixed", Products |-> <<P(2)>>] >>)

NoFile == [content |-> Absent, writer |-> "none"]

\* What a request served earlier left behind when its parse failed.
LeftBehind == [content |-> Malformed, writer |-> "earlier"]

Received ==
    [pc |-> "received", vexPath |-> "", err |-> NoErr, numFixedVulns |-> 0,
     updatedPackageCount |-> 0, wrote |-> FALSE,   \* wrote: its patcher wrote its document
     readFrom |-> "none", removed |-> "none"]

SharedInit ==
    /\ reqs = [r \in Requests |-> Received]
    /\ tmp \in [{VexFilePath} -> {NoFile, LeftBehind}]
    /\ NoCliCall
    /\ NoPatchCall
    /\ NoPlatformCall
    /\ NoScanCall
    /\ NoToolCall

\* copa.Run up to the start of the patcher: the VEX path is chosen.
StartPatcher(r) ==
    /\ reqs[r].pc = "received"
    /\ \E b \in {copaArgs(PatchParams(ReportRequest.Image, ReportRequest.Tag,
                                       ReportRequest.Push, <<>>, TRUE),
                           ReportRequest.ReportPath)} :
         reqs' = [reqs EXCEPT ![r].pc = "patching", ![r].vexPath = b.vexPath]
    /\ UNCHANGED <<tmp, cliVars, vexVars, patchVars, platVars, scanVars, toolVars>>

\* The patcher exits: with a file at the --output path (the VEX document
\* of the request, or text that is no document), or with a failure.
PatcherExits(r) ==
    /\ reqs[r].pc = "patching"
    /\ \/ \E w \in {DocOf(r), Malformed} :
            /\ tmp' = [tmp EXCEPT ![reqs[r].vexPath] = [content |-> w, writer |-> r]]
            /\ reqs' = [reqs EXCEPT ![r].pc = "returned", ![r].wrote = (w = DocOf(r))]
       \/ /\ reqs' = [reqs EXCEPT ![r].pc = "done",
                                   ![r].err = <<"copa report-based patching failed",
                                                "Copa command failed">>]
          /\ UNCHANGED tmp
    /\ UNCHANGED <<cliVars, vexVars, patchVars, platVars, scanVars, toolVars>>

\* parseVexDoc(vexPath) on what is at that path now.
ParseVex(r) ==
    /\ reqs[r].pc = "returned"
    /\ \E x \in {parseVexDoc(reqs[r].vexPath, tmp[reqs[r].vexPath].content)} :
         reqs' = [reqs EXCEPT
                    ![r].pc = IF x.err # NoErr THEN "done" ELSE "parsed",
                    ![r].err = IF x.err # NoErr
                               THEN Wrap("failed to parse vex document", x.err) ELSE NoErr,
                    ![r].numFixedVulns = x.numFixedVulns,
                    ![r].updatedPackageCount = x.updatedPackageCount,
                    ![r].readFrom = tmp[reqs[r].vexPath].writer]
    /\ UNCHANGED <<tmp, cliVars, vexVars, patchVars, platVars, scanVars, toolVars>>

\* os.RemoveAll(vexPath), then the result is returned.
RemoveVex(r) ==
    /\ reqs[r].pc = "parsed"
    /\ tmp' = [tmp EXCEPT ![reqs[r].vexPath] = NoFile]
    /\ reqs' = [reqs EXCEPT ![r].pc = "done", ![r].removed = tmp[reqs[r].vexPath].writer]
    /\ UNCHANGED <<cliVars, vexVars, patchVars, platVars, scanVars, toolVars>>

SharedNext ==
    \E r \in Requests :
        \/ StartPatcher(r)
        \/ PatcherExits(r)
        \/ ParseVex(r)
        \/ RemoveVex(r)

SpecShared == SharedInit /\ [][SharedNext]_vars

(***************************************************************************)
(* The MCP server: the tools NewServer registers and one tools/call        *)
(* request served by it.                                                   *)
(***************************************************************************)
\* const dryRun of the handlers (tools.go).
tools_dryRun == FALSE

\* NewServer: the name of each mcp.AddTool and the handler it is bound to.
RegisteredTools ==
    [n \in {"version", "workflow-guide", "scan-container", "patch-comprehensive",
            "patch-platforms-selective", "patch-report-based"} |->
        CASE n = "version" -> "Version"
          [] n = "workflow-guide" -> "WorkflowGuide"
          [] n = "scan-container" -> "ScanContainer"
          [] n = "patch-comprehensive" -> "PatchComprehensive"
          [] n = "patch-platforms-selective" -> "PatchPlatformSelective"
          [] n = "patch-report-based" -> "PatchReportBased"]

\* The tool names of the README's "MCP Tools" section.
ReadmeTools ==
    {"version", "workflow-guide", "scan-container", "patch-report-based",
     "patch-platform-selective", "patch-comprehensive"}

\* The tool names the commands of the companion client pass to executeMCPTool.
ClientTools ==
    {"version", "scan-container", "patch-comprehensive", "patch-platform-selective",
     "patch-report-based"}

\* A caller names a tool as the README or the client does, or as the
\* server's tool listing does.
RequestedNames == ReadmeTools \cup ClientTools \cup DOMAIN RegisteredTools

NoArgs == [shape |-> "none"]

ArgsOf(name) ==
    CASE name = "scan-container" -> ScanParams
      [] name = "patch-comprehensive" -> ComprehensivePatchParams
      [] name \in {"patch-platform-selective", "patch-platforms-selective"} ->
            PlatformSelectivePatchParams
      [] name = "patch-report-based" -> ReportBasedPatchParams
      [] OTHER -> {NoArgs}

ToolCalls == UNION {[name : {n}, args : ArgsOf(n)] : n \in RequestedNames}

\* What a handler hands back: (result text, error), or the process is gone.
Returns(text, e) == [text |-> text, err |-> e, exited |-> FALSE]

\* log.Fatal: the message goes to the server's log and os.Exit(1) follows.
Fatal == [text |-> <<>>, err |-> NoErr, exited |-> TRUE]

\* The answer to tools/call for a registered tool.  The SDK turns a non-nil
\* error of the handler into a result with IsError set whose text is the
\* error's message; a server that exited answers nothing.
Served(ret, ran) ==
    [done |-> TRUE, found |-> TRUE, exited |-> ret.exited,
     IsError |-> ~ret.exited /\ ret.err # NoErr,
     text |-> IF ret.exited THEN <<>> ELSE IF ret.err # NoErr THEN ret.err ELSE ret.text,
     err |-> ret.err, calls |-> ran.calls, spawned |-> ran.spawned]

NothingRan == [calls |-> <<>>, spawned |-> <<>>]

Dispatched(handler) ==
    /\ ~toolOut.done
    /\ toolIn.name \in DOMAIN RegisteredTools
    /\ RegisteredTools[toolIn.name] = handler

ToolFrame == UNCHANGED <<toolIn, cliVars, vexVars, patchVars, platVars, scanVars, concVars>>

\* Version: copa --version; its failure ends the server process.
Version ==
    /\ Dispatched("Version")
    /\ \E ok \in BOOLEAN :
         toolOut' = Served(IF ok THEN Returns(<<"copa version">>, NoErr) ELSE Fatal,
                           [calls |-> <<"spawn">>, spawned |-> Args(<<"copa", "--version">>)])
    /\ ToolFrame

WorkflowGuide ==
    /\ Dispatched("WorkflowGuide")
    /\ toolOut' = Served(Returns(<<"COPACETIC WORKFLOW GUIDANCE">>, NoErr), NothingRan)
    /\ ToolFrame

\* ScanContainer of tools.go as a tool: the text it answers with.
ToolScanContainer ==
    /\ Dispatched("ScanContainer")
    /\ \E in \in ScanInputs(toolIn.args) :
       \E out \in {ScanContainer(toolIn.args, in.mkdir, in.outs)} :
         toolOut' =
            Served(IF out.err # NoErr
                   THEN Returns(IF toolIn.args.Image = "" THEN <<"image parameter is required">>
                                ELSE Wrap("Vulnerability scan failed", out.err), out.err)
                   ELSE Returns(<<"Vulnerability scan completed for image", out.result.Image>>,
                                NoErr),
                   [calls |-> <<>>, spawned |-> out.runs])
    /\ ToolFrame

\* The text a patch handler answers with after Run returned out.
ComprehensiveText(out) ==
    IF out.err # NoErr THEN Returns(<<>>, Wrap("patching failed", out.err))
    ELSE Returns(<<"successful patched", toolIn.args.Image>>, NoErr)

\* PatchReportBased: RunOutputVex hands back the CLI's VEX path with Run's
\* error; the handler then reads the document at that path itself.
ReportBasedText(out) ==
    IF out.err # NoErr THEN Returns(<<>>, Wrap("patching failed", out.err))
    ELSE TheOne({ IF x.err # NoErr
                  THEN Returns(<<>>, Wrap("failed to parse vex document", x.err))
                  ELSE Returns(<<"successful patched", toolIn.args.Image, "vulnerabilities fixed",
                                 x.numFixedVulns, "packages updated", x.updatedPackageCount>>,
                               NoErr)
                  : x \in {parseVexDoc(out.cli.vexPath, out.vexFile)} })

HandlerText(handler, out) ==
    IF handler = "PatchReportBased" THEN ReportBasedText(out) ELSE ComprehensiveText(out)

\* The three patch handlers: New, the Build of the mode, Run, and the text.
PatchedBy(built, handler) ==
    \E reply \in RepliesFor(Run(built, Absent, "nologin", Silent, 1)) :
    \E p \in ProcsFor(Run(built, Absent, reply, Silent, 1)) :
    \E out \in {Run(built, Absent, reply, p, 1)} :
       toolOut' = Served(HandlerText(handler, out), out)

ToolPatchComprehensive ==
    /\ Dispatched("PatchComprehensive")
    /\ PatchedBy(Build(New(toolIn.args, tools_dryRun)), "PatchComprehensive")
    /\ ToolFrame

ToolPatchPlatformSelective ==
    /\ Dispatched("PatchPlatformSelective")
    /\ PatchedBy(BuildWithPlatforms(New(toolIn.args, tools_dryRun)), "PatchPlatformSelective")
    /\ ToolFrame

ToolPatchReportBased ==
    /\ Dispatched("PatchReportBased")
    /\ PatchedBy(BuildWithReport(New(toolIn.args, tools_dryRun)), "PatchReportBased")
    /\ ToolFrame

\* tools/call with a name no tool is registered under: the server answers
\* with a protocol error and no handler runs.
ToolNotFound ==
    /\ ~toolOut.done
    /\ toolIn.name \notin DOMAIN RegisteredTools
    /\ toolOut' = [done |-> TRUE, found |-> FALSE, exited |-> FALSE,
                   IsError |-> FALSE, text |-> <<>>, err |-> <<"unknown tool", toolIn.name>>,
                   calls |-> <<>>, spawned |-> <<>>]
    /\ ToolFrame

ToolsInit ==
    /\ toolIn \in ToolCalls
    /\ toolOut = [done |-> FALSE]
    /\ NoCliCall
    /\ NoPatchCall
    /\ NoPlatformCall
    /\ NoScanCall
    /\ NoRequests

ToolsNext ==
    \/ Version
    \/ WorkflowGuide
    \/ ToolScanContainer
    \/ ToolPatchComprehensive
    \/ ToolPatchPlatformSelective
    \/ ToolPatchReportBased
    \/ ToolNotFound

SpecTools == ToolsInit /\ [][ToolsNext]_vars

(***************************************************************************)
(* Vocabulary of the properties, stated independently of the operators     *)
(* above.                                                                  *)
(***************************************************************************)
\* The platforms of spec section 3: the eight table entries and arm64/v8.
SupportedSet ==
    {"linux/amd64", "linux/arm64", "linux/arm64/v8", "linux/arm/v7", "linux/arm/v6",
     "linux/386", "linux/ppc64le", "linux/s390x", "linux/riscv64"}

NoCommandBuilt(c) == c.cmd.nil

EmptyImage(c) == c.image = ""

NoSupportedPlatform(c) ==
    /\ c.platforms # <<>>
    /\ \A i \in DOMAIN c.platforms : c.platforms[i] \notin SupportedSet

ReportPathMissing(c) == c.reportPath # "" /\ Stat(c.reportPath) = "ENOENT"

ValidationMustFail(c) ==
    NoCommandBuilt(c) \/ EmptyImage(c) \/ NoSupportedPlatform(c) \/ ReportPathMissing(c)

Failed == err # NoErr

FailedWith(msg) == err # NoErr /\ err[1] = msg

Mentions(msg) == Contains(err, msg)

Push == Arg("--push")

IndexOf(s, x) == CHOOSE i \in DOMAIN s : s[i] = x

\* The subprocess of the last call ran and exited with code zero / non-zero.
ProcSucceeded == proc.kind = "exit" /\ proc.code = 0

ProcExitedNonZero == proc.kind = "exit" /\ proc.code # 0

(***************************************************************************)
(* C1: when validation must fail, Run returns a nil result and an error    *)
(* and reaches neither the registry-auth step nor the subprocess; execute  *)
(* on a CLI with no built command returns an error and a nil result and    *)
(* spawns nothing.                                                         *)
(***************************************************************************)
C1_ValidationBlocksRun ==
    /\ (op = "Run" /\ ValidationMustFail(pre)) =>
           /\ result = NilResult
           /\ Failed
           /\ ~Contains(calls, "auth")
           /\ ~Contains(calls, "spawn")
           /\ spawned = <<>>
           /\ authReply = "none"
    /\ (op = "execute" /\ NoCommandBuilt(pre)) =>
           /\ result = NilResult
           /\ Failed
           /\ spawned = <<>>

C1_Witness ==
    /\ op = "Run"
    /\ ~NoCommandBuilt(pre)
    /\ ~EmptyImage(pre)
    /\ ReportPathMissing(pre)
    /\ ~pre.dryRun
    /\ result = NilResult

(***************************************************************************)
(* C2: Run reports a validation failure exactly when no command is built,  *)
(* the image is empty, the platform list is non-empty with no supported    *)
(* entry, or the report path is set and missing; the message names the     *)
(* first of these that holds; a list mixing supported and unsupported      *)
(* platforms, and a built command with an image and neither platforms nor  *)
(* report path, pass.                                                      *)
(***************************************************************************)
C2_ValidationExact ==
    op = "Run" =>
        /\ FailedWith("command validation failed") <=> ValidationMustFail(pre)
        /\ FailedWith("command validation failed") =>
               /\ Len(err) = 2
               /\ err[2] =
                    IF NoCommandBuilt(pre) THEN "no command built - call a Build method first"
                    ELSE IF EmptyImage(pre) THEN "image is required"
                    ELSE IF NoSupportedPlatform(pre) THEN "no supported platforms found in"
                    ELSE "report path does not exist"

C2_Witness ==
    /\ op = "Run"
    /\ ~NoCommandBuilt(pre)
    /\ ~EmptyImage(pre)
    /\ \E i, j \in DOMAIN pre.platforms :
           pre.platforms[i] \in SupportedSet /\ pre.platforms[j] \notin SupportedSet
    /\ ~FailedWith("command validation failed")

(***************************************************************************)
(* C3: in Run the registry-auth step is consulted exactly when validation  *)
(* passed (dry run included) and before any spawn; on a login with no      *)
(* --push among the built arguments exactly one --push is appended, push   *)
(* becomes true and the spawned argv carries it; on no login the arguments *)
(* and push are unchanged.                                                 *)
(***************************************************************************)
C3_AuthBetweenValidateAndSpawn ==
    op = "Run" =>
        /\ Contains(calls, "auth") <=> ~ValidationMustFail(pre)
        /\ Contains(calls, "spawn") =>
               /\ Contains(calls, "auth")
               /\ IndexOf(calls, "auth") < IndexOf(calls, "spawn")
        /\ (authReply = "login" /\ ~Contains(pre.cmd.Args, Push)) =>
               /\ Tail1(cli.cmd.Args) = Tail1(pre.cmd.Args) \o <<Push>>
               /\ Count(cli.cmd.Args, Push) = 1
               /\ cli.push
               /\ spawned # <<>> =>
                      /\ Tail1(spawned) = Tail1(pre.cmd.Args) \o <<Push>>
                      /\ Count(spawned, Push) = 1
        /\ authReply = "nologin" =>
               /\ Tail1(cli.cmd.Args) = Tail1(pre.cmd.Args)
               /\ cli.push = pre.push
               /\ spawned # <<>> => Tail1(spawned) = Tail1(pre.cmd.Args)

C3_Witness ==
    /\ op = "Run"
    /\ authReply = "login"
    /\ ~Contains(pre.cmd.Args, Push)
    /\ ~pre.push
    /\ Contains(spawned, Push)

(***************************************************************************)
(* C4: when the registry-auth step fails, Run returns a nil result and an  *)
(* error "authentication setup failed" wrapping the auth error, spawns     *)
(* nothing and adds no --push.                                             *)
(***************************************************************************)
C4_AuthErrorAborts ==
    (op = "Run" /\ authReply = "error") =>
        /\ result = NilResult
        /\ FailedWith("authentication setup failed")
        /\ Len(err) > Len(AuthError)
        /\ SubSeq(err, Len(err) - Len(AuthError) + 1, Len(err)) = AuthError
        /\ spawned = <<>>
        /\ ~Contains(calls, "spawn")
        /\ cli.cmd.Args = pre.cmd.Args
        /\ cli.push = pre.push

C4_Witness ==
    /\ op = "Run"
    /\ authReply = "error"
    /\ ~pre.dryRun
    /\ ~pre.push

(***************************************************************************)
(* C5: execute on a built command in dry-run mode returns no error and a   *)
(* result with exit code zero, empty output, empty error text and a        *)
(* strictly positive duration, and spawns nothing.                         *)
(***************************************************************************)
C5_DryRunExecute ==
    (op = "execute" /\ ~NoCommandBuilt(pre) /\ pre.dryRun) =>
        /\ err = NoErr
        /\ ~result.nil
        /\ result.ExitCode = 0
        /\ result.Output = ""
        /\ result.Error = ""
        /\ result.Duration > 0
        /\ spawned = <<>>
        /\ calls = <<>>
        /\ proc = NoProc

C5_Witness ==
    /\ op = "execute"
    /\ ~NoCommandBuilt(pre)
    /\ pre.dryRun
    /\ ~result.nil

(***************************************************************************)
(* C6: when the subprocess exits non-zero, execute and Run return an error *)
(* "command execution failed" together with a non-nil result that carries  *)
(* the exit code, the duration and the output the subprocess wrote, and    *)
(* the VEX parser is not invoked.                                          *)
(***************************************************************************)
C6_FailedRunKeepsResult ==
    (op \in {"execute", "Run"} /\ spawned # <<>> /\ ProcExitedNonZero) =>
        /\ Mentions("command execution failed")
        /\ ~result.nil
        /\ result.ExitCode = proc.code
        /\ result.Duration > 0
        /\ result.Output = proc.stdout
        /\ result.Error = proc.stderr
        /\ ~Contains(calls, "readvex")

\* The part of C6 that the code keeps: the result is returned with the
\* error, with the exit code and the duration, and the parser is not run.
C6_ResultNotDiscarded ==
    (op \in {"execute", "Run"} /\ spawned # <<>> /\ ProcExitedNonZero) =>
        /\ Mentions("command execution failed")
        /\ ~result.nil
        /\ result.ExitCode = proc.code
        /\ result.Duration > 0
        /\ ~Contains(calls, "readvex")

(***************************************************************************)
(* C7: in normal mode the result's Output and Error are the text the       *)
(* spawned subprocess wrote to its stdout and stderr.                      *)
(***************************************************************************)
C7_OutputCaptured ==
    (op \in {"execute", "Run"} /\ spawned # <<>>) =>
        /\ result.Output = proc.stdout
        /\ result.Error = proc.stderr

(***************************************************************************)
(* C8: for every VEX document both parsers return fixedCount = the number  *)
(* of statements with status "fixed" and updatedPackageCount = the number  *)
(* of subcomponents over all products of those statements; a missing or    *)
(* malformed file yields an error and the counts (0, 0).                   *)
(***************************************************************************)
FixedIndexes(file) ==
    {i \in DOMAIN file.Statements : file.Statements[i].Status = "fixed"}

FixedSubcomponents(file) ==
    UNION {UNION {{<<i, j, k>> : k \in DOMAIN file.Statements[i].Products[j].Subcomponents} :
                      j \in DOMAIN file.Statements[i].Products} :
               i \in FixedIndexes(file)}

CountsAre(r, fixed, packages) ==
    r.numFixedVulns = fixed /\ r.updatedPackageCount = packages

C8_VexCounts ==
    vexOut.done =>
        /\ (vexIn.path = VexFilePath /\ vexFile.kind = "doc") =>
               \A r \in {vexOut.cli, vexOut.server} :
                   /\ r.err = NoErr
                   /\ CountsAre(r, Cardinality(FixedIndexes(vexFile)),
                                Cardinality(FixedSubcomponents(vexFile)))
        /\ (vexIn.path = VexFilePath /\ vexFile.kind # "doc") =>
               \A r \in {vexOut.cli, vexOut.server} : r.err # NoErr /\ CountsAre(r, 0, 0)
        /\ vexIn.path = "" => (vexOut.server.err # NoErr /\ CountsAre(vexOut.server, 0, 0))

C8_Witness ==
    /\ vexOut.done
    /\ vexIn.path = VexFilePath
    /\ vexFile.kind = "doc"
    /\ Len(vexFile.Statements) = 2
    /\ Cardinality(FixedIndexes(vexFile)) = 1
    /\ CountsAre(vexOut.cli, 1, 2)
    /\ CountsAre(vexOut.server, 1, 2)

(***************************************************************************)
(* C9: a CLI made from platform-selective or comprehensive parameters has  *)
(* no VEX path; Run's parser call returns without reading any file, so a   *)
(* patcher run that exits zero gives a successful call with both counts    *)
(* zero, whatever lies at the VEX file path.                               *)
(***************************************************************************)
NoVexShapes == {"PlatformSelectivePatchParams", "ComprehensivePatchParams"}

C9_NoVexModes ==
    (op = "Run" /\ request.params.shape \in NoVexShapes) =>
        /\ cli.vexPath = ""
        /\ ~Contains(calls, "readvex")
        /\ (Contains(calls, "spawn") /\ ProcSucceeded) =>
               /\ err = NoErr
               /\ ~result.nil
               /\ result.FixedVulnerabilityCount = 0
               /\ result.UpdatedPackageCount = 0

C9_Witness ==
    /\ op = "Run"
    /\ request.params.shape = "PlatformSelectivePatchParams"
    /\ Contains(calls, "spawn")
    /\ ProcSucceeded
    /\ vexFile = StaleFile
    /\ err = NoErr

(***************************************************************************)
(* C10: after a subprocess that exited zero and a result carrying a VEX    *)
(* path, Run invokes the parser last; the counts of the document are       *)
(* attached to the result, and a failed parse fails the call ("parsing vex *)
(* doc failed") with the result returned, its exit code zero.              *)
(***************************************************************************)
C10_VexParsedAfterSuccess ==
    (op = "Run" /\ Contains(calls, "spawn") /\ ProcSucceeded /\ result.VexPath # "") =>
        /\ calls[Len(calls)] = "readvex"
        /\ IndexOf(calls, "spawn") < Len(calls)
        /\ vexFile.kind = "doc" =>
               /\ err = NoErr
               /\ result.FixedVulnerabilityCount = Cardinality(FixedIndexes(vexFile))
               /\ result.UpdatedPackageCount = Cardinality(FixedSubcomponents(vexFile))
        /\ vexFile.kind # "doc" =>
               /\ FailedWith("parsing vex doc failed")
               /\ ~result.nil
               /\ result.ExitCode = 0
               /\ result.FixedVulnerabilityCount = 0
               /\ result.UpdatedPackageCount = 0

C10_Witness ==
    /\ op = "Run"
    /\ Contains(calls, "spawn")
    /\ ProcSucceeded
    /\ result.VexPath # ""
    /\ vexFile = Malformed
    /\ FailedWith("parsing vex doc failed")

\* The success side of C10 on the document of the spec's example.
C10_CountsAttached ==
    /\ op = "Run"
    /\ ProcSucceeded
    /\ result.VexPath # ""
    /\ err = NoErr
    /\ result.FixedVulnerabilityCount = 2
    /\ result.UpdatedPackageCount = 5

(***************************************************************************)
(* Vocabulary of the naming and platform-flag properties of the patch      *)
(* tools, from spec sections 4.2 and 4.3.                                  *)
(***************************************************************************)
\* The repository an image reference normalizes to (section 4.2): the
\* default namespace is dropped on the canonical public registry, any
\* other host keeps host/path.
NormalizedRepository(image) ==
    CASE image = <<"alpine", ":", "3.17">> -> <<"alpine">>
      [] image = <<"alpine">> -> <<"alpine">>
      [] image = <<"docker.io", "/", "library", "/", "alpine", ":", "3.17">> -> <<"alpine">>
      [] image = <<"ghcr.io", "/", "library", "/", "alpine", ":", "3.17">> ->
             <<"ghcr.io", "/", "library", "/", "alpine">>
      [] image = <<"ghcr.io", "/", "org", "/", "app", ":", "3.17">> ->
             <<"ghcr.io", "/", "org", "/", "app">>
      [] image = <<"localhost", ":", "5000", "/", "app">> ->
             <<"localhost", ":", "5000", "/", "app">>

OfficialRefs ==
    { <<"alpine", ":", "3.17">>, <<"alpine">>,
      <<"docker.io", "/", "library", "/", "alpine", ":", "3.17">> }

OtherHostRefs ==
    { <<"ghcr.io", "/", "library", "/", "alpine", ":", "3.17">>,
      <<"ghcr.io", "/", "org", "/", "app", ":", "3.17">>,
      <<"localhost", ":", "5000", "/", "app">> }

SourceTag(image) == IF image = <<"alpine">> THEN <<"latest">> ELSE <<"3.17">>

\* <arch> of section 4.3 step 5: the second and, if present, third segment.
ArchOf(platform) ==
    CASE platform = "linux/amd64" -> <<"amd64">>
      [] platform = "linux/arm64" -> <<"arm64">>
      [] platform = "linux/arm/v7" -> <<"arm", "-", "v7">>
      [] platform = "windows/amd64" -> <<"amd64">>

SlashedPlatforms == {"linux/amd64", "linux/arm64", "linux/arm/v7", "windows/amd64"}

PlatformFlag == Arg("--platform")

HasPlatformFlag(argv) == Contains(argv, PlatformFlag)

\* The argument after --platform, and the platform names in it.
PlatformValue(argv) == argv[IndexOf(argv, PlatformFlag) + 1]

PlatformsIn(value) == SelectSeq(value, LAMBDA a : a # ",")

CommaJoined(value) == value # <<>> /\ value = Join(PlatformsIn(value), ",")

SupportedOf(platforms) == SelectSeq(platforms, LAMBDA p : p \in SupportedSet)

PatchDone(tool) == patchOut.done /\ patchIn.tool = tool

PatchSucceeded(tool) == PatchDone(tool) /\ patchOut.err = NoErr /\ patchOut.spawned # <<>>

(***************************************************************************)
(* C11: a platform-selective request with a custom tag predicts one image  *)
(* repository:tag-<arch> per requested platform, in request order; for     *)
(* alpine:3.17, tag patched and platforms linux/amd64, linux/arm64 these   *)
(* are alpine:patched-amd64 and alpine:patched-arm64.                      *)
(***************************************************************************)
C11_NamingRoundTrip ==
    ( /\ PatchSucceeded("patch-platforms")
      /\ patchIn.args.Image \in OfficialRefs
      /\ patchIn.args.Tag # <<>>
      /\ \A i \in DOMAIN patchIn.args.Platform : patchIn.args.Platform[i] \in SlashedPlatforms ) =>
        /\ patchOut.patchedImage =
               [i \in DOMAIN patchIn.args.Platform |->
                   <<"alpine", ":">> \o patchIn.args.Tag \o <<"-">>
                       \o ArchOf(patchIn.args.Platform[i])]
        /\ ( /\ patchIn.args.Image = <<"alpine", ":", "3.17">>
             /\ patchIn.args.Tag = <<"patched">>
             /\ patchIn.args.Platform = <<"linux/amd64", "linux/arm64">> ) =>
               patchOut.patchedImage = << <<"alpine", ":", "patched", "-", "amd64">>,
                                          <<"alpine", ":", "patched", "-", "arm64">> >>

\* The naming scheme of C11 as the code applies it: with no custom tag.
C11_NamingWithoutCustomTag ==
    ( /\ PatchSucceeded("patch-platforms")
      /\ patchIn.args.Image \in OfficialRefs
      /\ patchIn.args.Tag = <<>>
      /\ \A i \in DOMAIN patchIn.args.Platform : patchIn.args.Platform[i] \in SlashedPlatforms ) =>
        patchOut.patchedImage =
            [i \in DOMAIN patchIn.args.Platform |->
                <<"alpine", ":">> \o SourceTag(patchIn.args.Image) \o <<"-", "patched", "-">>
                    \o ArchOf(patchIn.args.Platform[i])]

(***************************************************************************)
(* C12: a request without a custom tag and without platform expansion      *)
(* (report-based, or comprehensive on a single-platform image) derives     *)
(* the tag <sourceTag>-patched and predicts exactly one output image       *)
(* repository:<sourceTag>-patched; for alpine:3.17 in comprehensive mode   *)
(* the tag is 3.17-patched and the image alpine:3.17-patched.              *)
(***************************************************************************)
NoPlatformExpansion ==
    \/ PatchSucceeded("patch-vulnerabilities")
    \/ PatchSucceeded("patch-comprehensive") /\ ~patchIn.info.IsMultiPlatform

C12_DerivedTagSingleImage ==
    (NoPlatformExpansion /\ patchIn.args.Image \in OfficialRefs /\ patchIn.args.Tag = <<>>) =>
        /\ patchOut.tag = SourceTag(patchIn.args.Image) \o <<"-", "patched">>
        /\ patchOut.patchedImage =
               << <<"alpine", ":">> \o SourceTag(patchIn.args.Image) \o <<"-", "patched">> >>
        /\ ( /\ patchIn.tool = "patch-comprehensive"
             /\ patchIn.args.Image = <<"alpine", ":", "3.17">> ) =>
               /\ patchOut.tag = <<"3.17", "-", "patched">>
               /\ patchOut.patchedImage = << <<"alpine", ":", "3.17", "-", "patched">> >>

\* The part of C12 that the code keeps: the derived tag.
C12_DerivedTag ==
    (NoPlatformExpansion /\ patchIn.args.Image \in OfficialRefs /\ patchIn.args.Tag = <<>>) =>
        patchOut.tag = SourceTag(patchIn.args.Image) \o <<"-", "patched">>

(***************************************************************************)
(* C13: whenever a platform-selective request with at least one supported  *)
(* platform reaches the patcher, the patcher's arguments have --platform   *)
(* followed by a comma-joined list made only of requested platforms, with  *)
(* or without a custom tag.                                                *)
(***************************************************************************)
C13_PlatformFlagPassed ==
    ( /\ PatchDone("patch-platforms")
      /\ patchOut.spawned # <<>>
      /\ SupportedOf(patchIn.args.Platform) # <<>> ) =>
        /\ HasPlatformFlag(patchOut.spawned)
        /\ Count(patchOut.spawned, PlatformFlag) = 1
        /\ IndexOf(patchOut.spawned, PlatformFlag) < Len(patchOut.spawned)
        /\ CommaJoined(PlatformValue(patchOut.spawned))
        /\ \A i \in DOMAIN PlatformsIn(PlatformValue(patchOut.spawned)) :
               Contains(patchIn.args.Platform, PlatformsIn(PlatformValue(patchOut.spawned))[i])

\* C13 on the CLI object: BuildWithPlatforms puts the flag in the command,
\* with or without a tag, and Run hands the command's arguments to the patcher.
C13_BuildWithPlatformsFlag ==
    /\ ( /\ op = "BuildWithPlatforms"
         /\ SupportedOf(pre.platforms) # <<>> ) =>
           /\ Count(cli.cmd.Args, PlatformFlag) = 1
           /\ CommaJoined(PlatformValue(cli.cmd.Args))
           /\ \A i \in DOMAIN PlatformsIn(PlatformValue(cli.cmd.Args)) :
                  Contains(pre.platforms, PlatformsIn(PlatformValue(cli.cmd.Args))[i])
    /\ (op = "Run" /\ spawned # <<>> /\ HasPlatformFlag(pre.cmd.Args)) =>
           /\ HasPlatformFlag(spawned)
           /\ PlatformValue(spawned) = PlatformValue(pre.cmd.Args)

(***************************************************************************)
(* C14: in a platform-selective request that reaches the patcher the       *)
(* --platform value holds exactly the supported platforms of the request,  *)
(* in request order, and a request whose platforms are all unsupported is  *)
(* rejected without the patcher being spawned.                             *)
(***************************************************************************)
C14_UnsupportedNeverPassed ==
    PatchDone("patch-platforms") =>
        /\ (patchOut.spawned # <<>> /\ HasPlatformFlag(patchOut.spawned)) =>
               PlatformsIn(PlatformValue(patchOut.spawned)) = SupportedOf(patchIn.args.Platform)
        /\ (patchIn.args.Platform # <<>> /\ SupportedOf(patchIn.args.Platform) = <<>>) =>
               /\ patchOut.spawned = <<>>
               /\ patchOut.err # NoErr

\* C14 on the CLI object: BuildWithPlatforms passes only the supported
\* platforms, and Run rejects a list with none before anything is spawned.
C14_CliFiltersPlatforms ==
    /\ (op = "BuildWithPlatforms" /\ HasPlatformFlag(cli.cmd.Args)) =>
           PlatformsIn(PlatformValue(cli.cmd.Args)) = SupportedOf(pre.platforms)
    /\ (op = "Run" /\ pre.platforms # <<>> /\ SupportedOf(pre.platforms) = <<>>) =>
           /\ spawned = <<>>
           /\ Failed

(***************************************************************************)
(* C15: --platform is among the patcher's arguments only when the caller   *)
(* supplied a non-empty platform list: report-based and comprehensive      *)
(* requests never carry it, whatever the image was classified as.          *)
(***************************************************************************)
C15_PlatformFlagOnlyOnRequest ==
    patchOut.done =>
        /\ patchIn.tool \in {"patch-vulnerabilities", "patch-comprehensive"} =>
               /\ ~HasPlatformFlag(patchOut.args)
               /\ ~HasPlatformFlag(patchOut.spawned)
        /\ HasPlatformFlag(patchOut.spawned) =>
               /\ patchIn.tool = "patch-platforms"
               /\ Len(patchIn.args.Platform) > 0

C15_Witness ==
    /\ PatchSucceeded("patch-comprehensive")
    /\ patchIn.info.IsMultiPlatform
    /\ ~patchIn.info.IsLocal
    /\ Len(patchOut.patchedImage) > 1
    /\ ~HasPlatformFlag(patchOut.spawned)

\* C15 on the CLI object: a CLI made from report-based or comprehensive
\* parameters never has --platform in its command, whatever builder is used.
C15_CliNoPlatformFlag ==
    request.params.shape \in {"ReportBasedPatchParams", "ComprehensivePatchParams"} =>
        /\ ~HasPlatformFlag(cli.cmd.Args)
        /\ ~HasPlatformFlag(spawned)

(***************************************************************************)
(* C16: the platform predicate is true for each of the eight table entries *)
(* and for linux/arm64/v8, and false for every other string ("",           *)
(* windows/amd64, darwin/amd64, linux/mips, any other variant-qualified    *)
(* form of a table entry); the copies of the copa package and of the       *)
(* multiplatform package agree on every input.                             *)
(***************************************************************************)
C16_IsSupportedExact ==
    platOut.done =>
        /\ \A i \in DOMAIN platIn :
               /\ platOut.copa.supported[i] <=> platIn[i] \in SupportedSet
               /\ platOut.multiplatform.supported[i] <=> platIn[i] \in SupportedSet
        /\ platOut.copa.supported = platOut.multiplatform.supported

C16_Witness ==
    /\ platOut.done
    /\ platIn = <<"linux/arm64/v8">>
    /\ platOut.copa.supported = <<TRUE>>
    /\ platOut.multiplatform.supported = <<TRUE>>

\* A variant other than arm64/v8 is asked about and refused.
C16_OtherVariantRefused ==
    /\ platOut.done
    /\ platIn = <<"linux/amd64/v2">>
    /\ platOut.copa.supported = <<FALSE>>
    /\ platOut.multiplatform.supported = <<FALSE>>

(***************************************************************************)
(* C17: the platform filter returns exactly the entries of the list for    *)
(* which the predicate is true, in their original order and spelling       *)
(* (linux/arm64/v8 stays as written); it returns the empty list for an     *)
(* empty list and for a list with no supported entry, and filtering twice  *)
(* gives what filtering once gives; both copies agree.                     *)
(***************************************************************************)
SupportedIndexes(list) == {i \in DOMAIN list : list[i] \in SupportedSet}

\* The k-th smallest index of a set of indexes.
Nth(indexes, k) == CHOOSE i \in indexes : Cardinality({j \in indexes : j < i}) = k - 1

IsSupportedSubsequence(filtered, list) ==
    /\ Len(filtered) = Cardinality(SupportedIndexes(list))
    /\ \A k \in DOMAIN filtered : filtered[k] = list[Nth(SupportedIndexes(list), k)]

C17_FilterKeepsSupported ==
    platOut.done =>
        \A r \in {platOut.copa, platOut.multiplatform} :
            /\ IsSupportedSubsequence(r.filtered, platIn)
            /\ SupportedIndexes(platIn) = {} => r.filtered = <<>>
            /\ r.twice = r.filtered

C17_Witness ==
    /\ platOut.done
    /\ platIn = <<"linux/amd64", "windows/amd64", "linux/arm64">>
    /\ platOut.copa.filtered = <<"linux/amd64", "linux/arm64">>
    /\ platOut.multiplatform.filtered = <<"linux/amd64", "linux/arm64">>

\* The arm64 variant comes back as it was written, after the entries before it.
C17_VariantKeptAsWritten ==
    /\ platOut.done
    /\ platIn = <<"linux/arm/v8", "linux/arm64/v8", "linux/amd64">>
    /\ platOut.copa.filtered = <<"linux/arm64/v8", "linux/amd64">>
    /\ platOut.multiplatform.filtered = <<"linux/arm64/v8", "linux/amd64">>

(***************************************************************************)
(* C18: the default namespace prefix is stripped only on the canonical     *)
(* public registry (the official image alpine gives repository "alpine");  *)
(* for every other registry host the repository of the predicted output    *)
(* names is the full host/path string.                                     *)
(***************************************************************************)
NamedUnder(images, repository) ==
    \A i \in DOMAIN images : HasPrefix(images[i], repository \o <<":">>)

C18_OtherHostsKeepRepository ==
    (patchOut.done /\ patchOut.err = NoErr /\ patchOut.spawned # <<>>) =>
        /\ patchIn.args.Image \in OfficialRefs =>
               NamedUnder(patchOut.patchedImage, <<"alpine">>)
        /\ patchIn.args.Image \in OtherHostRefs =>
               NamedUnder(patchOut.patchedImage, NormalizedRepository(patchIn.args.Image))

\* The part of C18 that the code keeps: the expected names of the
\* comprehensive flow, and the official image in every flow.
C18_ComprehensiveKeepsRepository ==
    (patchOut.done /\ patchOut.err = NoErr /\ patchOut.spawned # <<>>) =>
        /\ patchIn.args.Image \in OfficialRefs =>
               NamedUnder(patchOut.patchedImage, <<"alpine">>)
        /\ (patchIn.tool = "patch-comprehensive" /\ patchIn.args.Image \in OtherHostRefs) =>
               NamedUnder(patchOut.patchedImage, NormalizedRepository(patchIn.args.Image))

(***************************************************************************)
(* Vocabulary of the scan properties, from spec section 4.6.               *)
(***************************************************************************)
\* The report file of a platform: its name with the slashes made hyphens.
HyphenatedReport(platform) ==
    CASE platform = "linux/amd64" -> <<"linux", "-", "amd64", ".json">>
      [] platform = "linux/arm64" -> <<"linux", "-", "arm64", ".json">>
      [] platform = "linux/arm/v7" -> <<"linux", "-", "arm", "-", "v7", ".json">>

ReportJson == <<"report", ".json">>

\* b is the argument right after a.
Adjacent(argv, a, b) == \E i \in 1..(Len(argv) - 1) : argv[i] = a /\ argv[i + 1] = b

WritesTo(argv, name) == Adjacent(argv, Arg("-o"), ReportDir \o <<"/">> \o name)

ScanSucceeded(run) == run.outcome.kind = "exit" /\ run.outcome.code = 0

FileNames(files) == {f.name : f \in files}

\* The scan tool was called and got as far as making its report directory.
Scanned == scanOut.done /\ scanOut.dir

C19_HostScan ==
    /\ Scanned
    /\ scanIn.Platform = <<>>
    /\ scanOut.err = NoErr
    /\ FileNames(scanOut.files) = {ReportJson}
    /\ scanOut.result.Platforms = <<"host platform">>

(***************************************************************************)
(* C20: in a multi-platform scan the first failing scanner run is the last *)
(* run of the call: no later platform is scanned, the call returns an      *)
(* error and no ScanResult, and the report files written for the earlier   *)
(* platforms are still in the report directory.                            *)
(***************************************************************************)
C20_FirstFailureAborts ==
    (Scanned /\ scanIn.Platform # <<>>) =>
        /\ \A i \in 1..(Len(scanOut.runs) - 1) : ScanSucceeded(scanOut.runs[i])
        /\ ~scanOut.result.nil =>
               /\ \A i \in DOMAIN scanOut.runs : ScanSucceeded(scanOut.runs[i])
               /\ Len(scanOut.runs) = Len(scanIn.Platform)
        /\ (\E i \in DOMAIN scanOut.runs : ~ScanSucceeded(scanOut.runs[i])) =>
               /\ scanOut.err # NoErr
               /\ scanOut.err[1] = "vulnerability scan failed"
               /\ scanOut.result = NilScanResult
               /\ \A i \in 1..(Len(scanOut.runs) - 1) :
                      HyphenatedReport(scanIn.Platform[i]) \in FileNames(scanOut.files)

C20_Witness ==
    /\ Scanned
    /\ Len(scanIn.Platform) = 2
    /\ scanIn.Platform[1] # scanIn.Platform[2]
    /\ Len(scanOut.runs) = 2
    /\ ScanSucceeded(scanOut.runs[1])
    /\ ~ScanSucceeded(scanOut.runs[2])
    /\ HyphenatedReport(scanIn.Platform[1]) \in FileNames(scanOut.files)
    /\ scanOut.result = NilScanResult

\* The first platform of two fails: the second is not scanned.
C20_LaterPlatformSkipped ==
    /\ Scanned
    /\ Len(scanIn.Platform) = 2
    /\ Len(scanOut.runs) = 1
    /\ ~ScanSucceeded(scanOut.runs[1])
    /\ scanOut.err # NoErr

(***************************************************************************)
(* Vocabulary of the counting properties, from spec section 4.6.           *)
(***************************************************************************)
\* Every vulnerability of the report directory: the k-th entry of the
\* Vulnerabilities array of the j-th result of file f.
VulnerabilityEntries(files) ==
    UNION {UNION {{<<f.name, j, k>> : k \in DOMAIN f.content.Results[j]} :
                      j \in DOMAIN f.content.Results} : f \in files}

AllParse(files) == \A f \in files : f.content.kind = "report"

ScanReturned == scanOut.done /\ scanOut.err = NoErr

(***************************************************************************)
(* C21: when the scans of a call all complete, the reported count is the   *)
(* number of entries of every Vulnerabilities array of every result of     *)
(* every report file of the directory; when a report file cannot be        *)
(* parsed the count is zero, not a partial sum, and the call still         *)
(* returns a result, without error, with ScanCompleted set.                *)
(***************************************************************************)
C21_CountIsSumOrZero ==
    ScanReturned =>
        /\ ~scanOut.result.nil
        /\ scanOut.result.ScanCompleted
        /\ AllParse(scanOut.files) =>
               scanOut.result.VulnCount = Cardinality(VulnerabilityEntries(scanOut.files))
        /\ ~AllParse(scanOut.files) => scanOut.result.VulnCount = 0

\* Two files, one of them with two results that both have a vulnerability.
C21_Witness ==
    /\ ScanReturned
    /\ Cardinality(scanOut.files) = 2
    /\ \E f \in scanOut.files :
           f.content.kind = "report" /\ Len(f.content.Results) = 2
           /\ \A j \in 1..2 : Len(f.content.Results[j]) = 1
    /\ scanOut.result.VulnCount = 3

\* A file that is no report next to one that has vulnerabilities.
C21_ZeroOnParseFailure ==
    /\ ScanReturned
    /\ \E f \in scanOut.files : f.content.kind = "malformed"
    /\ \E f \in scanOut.files : f.content.kind = "report" /\ f.content.Results # <<>>
                                  /\ f.content.Results[1] # <<>>
    /\ scanOut.result.VulnCount = 0
    /\ scanOut.result.ScanCompleted

(***************************************************************************)
(* C30: after a multi-platform scan that succeeded, the report directory   *)
(* has as many report files as the scanner was run, which is as many as    *)
(* platforms were listed: no two listed platforms have the same report     *)
(* file.                                                                   *)
(***************************************************************************)
C30_OneFilePerPlatform ==
    (ScanReturned /\ scanIn.Platform # <<>>) =>
        /\ Len(scanOut.runs) = Len(scanIn.Platform)
        /\ Cardinality(scanOut.files) = Len(scanOut.runs)

\* The same holds of the lists that name no platform twice.
C30_DistinctPlatforms ==
    (ScanReturned /\ scanIn.Platform # <<>>
       /\ \A i, j \in DOMAIN scanIn.Platform : scanIn.Platform[i] = scanIn.Platform[j] => i = j) =>
        /\ Len(scanOut.runs) = Len(scanIn.Platform)
        /\ Cardinality(scanOut.files) = Len(scanOut.runs)

\* A platform listed twice: two runs, one file, and the count is of that file.
C30_SecondRunOverwrites ==
    /\ ScanReturned
    /\ Len(scanIn.Platform) = 2
    /\ scanIn.Platform[1] = scanIn.Platform[2]
    /\ Len(scanOut.runs) = 2
    /\ Cardinality(scanOut.files) = 1
    /\ scanOut.runs[1].outcome.writes # scanOut.runs[2].outcome.writes

(***************************************************************************)
(* Vocabulary of the isolation property, from spec section 5.              *)
(***************************************************************************)
Other(r) == CHOOSE o \in Requests : o # r

\* The counts of the document the request's own patcher wrote.
OwnCounts(r) == CountStatements(DocOf(r).Statements)

\* r is between the return of its patcher and its parse.
AwaitsParse(r) == reqs[r].pc = "returned"

Finished(r) == reqs[r].pc = "done"

(***************************************************************************)
(* C22: the VEX file a request asked its patcher to write is not read,     *)
(* overwritten or deleted by the other request: the two requests have      *)
(* different VEX paths, the file is the request's own until it has parsed  *)
(* it, its counts are those of its own document, it removes only its own   *)
(* file, and its parse does not fail for a file that was removed.          *)
(***************************************************************************)
C22_VexFilePrivate ==
    \A r \in Requests :
        /\ (reqs[r].vexPath # "" /\ reqs[Other(r)].vexPath # "") =>
               reqs[r].vexPath # reqs[Other(r)].vexPath
        /\ AwaitsParse(r) => tmp[reqs[r].vexPath].writer = r
        /\ reqs[r].readFrom \in {"none", r}
        /\ reqs[r].removed \in {"none", r}
        /\ (Finished(r) /\ reqs[r].wrote) =>
               /\ reqs[r].err = NoErr
               /\ reqs[r].numFixedVulns = OwnCounts(r).numFixedVulns
               /\ reqs[r].updatedPackageCount = OwnCounts(r).updatedPackageCount

\* A request served while the other has not started has its file to itself.
C22_AloneIsPrivate ==
    \A r \in Requests :
        reqs[Other(r)].pc = "received" =>
            /\ AwaitsParse(r) => tmp[reqs[r].vexPath].writer = r
            /\ reqs[r].readFrom \in {"none", r}
            /\ reqs[r].removed \in {"none", r}
            /\ (Finished(r) /\ reqs[r].wrote) =>
                   /\ reqs[r].err = NoErr
                   /\ reqs[r].numFixedVulns = OwnCounts(r).numFixedVulns

\* Request a returns the counts of the document written for b.
C22_CountsOfTheOther ==
    /\ Finished("a")
    /\ reqs["a"].err = NoErr
    /\ reqs["a"].readFrom = "b"
    /\ reqs["a"].numFixedVulns = OwnCounts("b").numFixedVulns

\* Request a fails to parse: b removed the file a's patcher had written.
C22_RemovedByTheOther ==
    /\ Finished("a")
    /\ reqs["a"].wrote
    /\ reqs["a"].err # NoErr
    /\ reqs["b"].removed = "a"

(***************************************************************************)
(* Vocabulary of the required-field property, from spec section 7.         *)
(***************************************************************************)
\* The CLI a patch tool handler builds before it calls Run: New, then the
\* builder of the tool.
BuiltByTool(params) ==
    CASE params.shape = "ComprehensivePatchParams" -> Build(New(params, FALSE))
      [] params.shape = "PlatformSelectivePatchParams" -> BuildWithPlatforms(New(params, FALSE))
      [] params.shape = "ReportBasedPatchParams" -> BuildWithReport(New(params, FALSE))

\* The last call was the Run of a patch tool handler.
ToolRan == op = "Run" /\ ~request.dryRun /\ pre = BuiltByTool(request.params)

NoImage(params) == params.Image = ""

NoReport(params) ==
    /\ params.shape = "ReportBasedPatchParams"
    /\ (params.ReportPath = "" \/ IsNotExist(Stat(params.ReportPath)))

NoPlatforms(params) ==
    params.shape = "PlatformSelectivePatchParams" /\ params.Platform = <<>>

\* Run returned an error and neither logged in to a registry nor started the patcher.
RejectedEarly == err # NoErr /\ spawned = <<>> /\ ~Contains(calls, "auth") /\ proc = NoProc

(***************************************************************************)
(* C23: a request that lacks a required field (the image, for the          *)
(* report-based tool a report path that is set and exists, for the         *)
(* platform-selective tool a non-empty platform list) is rejected with an  *)
(* error before the registry login and before any process is started.      *)
(***************************************************************************)
C23_RequiredFieldsRejected ==
    (ToolRan /\ (NoImage(request.params) \/ NoReport(request.params)
                    \/ NoPlatforms(request.params))) => RejectedEarly

\* The part that holds of the three patch tools: the image, and a report
\* path that is set but does not exist.
C23_ImageAndReportDirChecked ==
    (ToolRan /\ (NoImage(request.params)
                    \/ (NoReport(request.params) /\ request.params.ReportPath # ""))) =>
        RejectedEarly

\* The platform-selective tool with an image and no platform starts the patcher.
C23_NoPlatformsPatched ==
    /\ ToolRan
    /\ NoPlatforms(request.params)
    /\ ~NoImage(request.params)
    /\ err = NoErr
    /\ spawned # <<>>
    /\ Contains(calls, "auth")

\* The handlers over copa.Run reject every one of these before the patcher
\* and before the image is looked up.
C23_RunHandlersReject ==
    (patchOut.done
       /\ \/ patchIn.args.Image = <<>>
          \/ /\ patchIn.tool = "patch-vulnerabilities"
             /\ (patchIn.args.ReportPath = "" \/ IsNotExist(Stat(patchIn.args.ReportPath)))
          \/ patchIn.tool = "patch-platforms" /\ patchIn.args.Platform = <<>>) =>
        patchOut.err # NoErr /\ patchOut.spawned = <<>> /\ patchOut.proc = NoProc

\* The scan tool without an image makes no report directory and runs no scanner.
C23_ScanRejects ==
    (scanOut.done /\ scanIn.Image = "") =>
        scanOut.err # NoErr /\ scanOut.runs = <<>> /\ ~scanOut.dir

(***************************************************************************)
(* C26  Every tool name documented in the README and invoked by the        *)
(* companion client (version, workflow-guide, scan-container,              *)
(* patch-report-based, patch-platform-selective, patch-comprehensive) is   *)
(* the name of a registered tool: a call under any of these names reaches  *)
(* a handler.                                                              *)
(***************************************************************************)
DocumentedNames ==
    {"version", "workflow-guide", "scan-container", "patch-report-based",
     "patch-platform-selective", "patch-comprehensive"}

ToolCalled == toolOut.done

C26_DocumentedToolsRegistered ==
    /\ ReadmeTools \cup ClientTools = DocumentedNames
    /\ (ToolCalled /\ toolIn.name \in DocumentedNames) => toolOut.found

\* The five other names are registered and reach a handler.
C26_OtherNamesRegistered ==
    (ToolCalled /\ toolIn.name \in DocumentedNames \ {"patch-platform-selective"})
        => toolOut.found

\* The client's platform-selective command is answered "unknown tool".
C26_ClientCommandUnserved ==
    /\ ToolCalled
    /\ toolIn.name = "patch-platform-selective"
    /\ toolIn.name \in ClientTools
    /\ ~toolOut.found
    /\ toolOut.spawned = <<>>

(***************************************************************************)
(* C25  For each of the six exposed tools, every failure outcome (invalid  *)
(* input, external tool failure, parse failure, authentication failure)    *)
(* is returned to the caller as a structured error together with a         *)
(* human-readable text explanation.                                        *)
(***************************************************************************)
\* The handler left by another way than its success return.
ToolFailed == ToolCalled /\ toolOut.found /\ (toolOut.exited \/ toolOut.err # NoErr)

ErrorWithText(o) == ~o.exited /\ o.IsError /\ o.text # <<>>

C25_FailuresReturned == ToolFailed => ErrorWithText(toolOut)

\* Every failure of the five tools other than version is returned so.
C25_OtherToolsReturn == (ToolFailed /\ toolIn.name # "version") => ErrorWithText(toolOut)

\* A failing "copa --version" ends the server: the caller gets no result.
C25_VersionFailureExits ==
    /\ ToolFailed
    /\ toolIn.name = "version"
    /\ toolOut.exited
    /\ ~toolOut.IsError
    /\ toolOut.text = <<>>

\* Failures of each kind the claim lists, returned by the other tools.
C25_AuthFailureReturned ==
    /\ ToolFailed
    /\ Contains(toolOut.err, "authentication setup failed")
    /\ ErrorWithText(toolOut)

C25_ParseFailureReturned ==
    /\ ToolFailed
    /\ toolIn.name = "patch-report-based"
    /\ toolOut.spawned # <<>>
    /\ \/ Contains(toolOut.err, "parsing vex doc failed")
       \/ Contains(toolOut.err, "failed to parse vex document")
    /\ ErrorWithText(toolOut)

(***************************************************************************)
(* C24  Exactly one patching mode is active per request: the CLI that New  *)
(* produces from any of the three parameter shapes never has both a        *)
(* non-empty platform list and a report path; a report-based shape yields  *)
(* no platforms, a platform-selective shape no report path, a              *)
(* comprehensive shape neither, and image, tag and push are copied         *)
(* unchanged.  No later Build or Run call changes the mode, the image or   *)
(* the tag; push is the request's until a registry login turns it on.      *)
(***************************************************************************)
ShapeOf(r) == r.params.shape

C24_OneModePerRequest ==
    /\ ~(cli.platforms # <<>> /\ cli.reportPath # "")
    /\ ShapeOf(request) = "ReportBasedPatchParams" =>
          cli.platforms = <<>> /\ cli.reportPath = request.params.ReportPath
    /\ ShapeOf(request) = "PlatformSelectivePatchParams" =>
          cli.reportPath = "" /\ cli.platforms = request.params.Platform
    /\ ShapeOf(request) = "ComprehensivePatchParams" =>
          cli.platforms = <<>> /\ cli.reportPath = ""
    /\ cli.image = request.params.Image
    /\ cli.tag = request.params.Tag
    /\ op = "New" => cli.push = request.params.Push
    /\ request.params.Push => cli.push

C24_Witness ==
    /\ op = "New"
    /\ ShapeOf(request) = "PlatformSelectivePatchParams"
    /\ cli.platforms # <<>>
    /\ cli.reportPath = ""
    /\ cli.image # "" /\ cli.tag # "" /\ cli.push

\* The report-based mode, still the only one after the CLI was run.
C24_ReportModeKept ==
    /\ op = "Run"
    /\ ShapeOf(request) = "ReportBasedPatchParams"
    /\ cli.reportPath # ""
    /\ cli.platforms = <<>>
    /\ spawned # <<>>

(***************************************************************************)
(* C27  After any sequence of Build, BuildWithPlatforms, BuildWithReport   *)
(* and Run calls on one CLI, the current command's arguments start with    *)
(* patch, --image, <image>, contain --tag <tag> exactly when the tag is    *)
(* non-empty, and contain --push at most once: not twice when push was     *)
(* requested and the auth step reports a login, nor when Run is repeated.  *)
(***************************************************************************)
CountOf(s, x) == Cardinality({i \in DOMAIN s : s[i] = x})

\* The arguments after the program name.
Arguments(c) == Tail(c.cmd.Args)

Follows(s, x, y) == \E i \in 1..(Len(s) - 1) : s[i] = x /\ s[i + 1] = y

C27_ArgumentsWellFormed ==
    ~cli.cmd.nil =>
        /\ Len(Arguments(cli)) >= 3
        /\ SubSeq(Arguments(cli), 1, 3) = Args(<<"patch", "--image", cli.image>>)
        /\ (cli.tag # "") <=> Follows(Arguments(cli), Arg("--tag"), Arg(cli.tag))
        /\ (cli.tag # "") <=> Contains(Arguments(cli), Arg("--tag"))
        /\ CountOf(Arguments(cli), Arg("--push")) <= 1

\* Push was requested, the auth step reported a login: one --push.
C27_Witness ==
    /\ op = "Run"
    /\ request.params.Push
    /\ authReply = "login"
    /\ Contains(Arguments(pre), Arg("--push"))
    /\ CountOf(Arguments(cli), Arg("--push")) = 1
    /\ cli.tag # ""

\* Run again on a command an earlier login added --push to: still one.
C27_RunRepeated ==
    /\ op = "Run"
    /\ ~request.params.Push
    /\ authReply = "login"
    /\ Contains(Arguments(pre), Arg("--push"))
    /\ CountOf(Arguments(cli), Arg("--push")) = 1

(***************************************************************************)
(* C28  After any sequence of Build, BuildWithPlatforms and                *)
(* BuildWithReport calls on one CLI, the recorded VEX path is non-empty    *)
(* exactly when the current command's arguments contain --report and       *)
(* --output: a later plain Build leaves no stale VEX path behind, so Run   *)
(* parses a VEX document only for a command that asked for one.            *)
(***************************************************************************)
HasReportFlags(c) ==
    /\ ~c.cmd.nil
    /\ Contains(Arguments(c), Arg("--report"))
    /\ Contains(Arguments(c), Arg("--output"))

C28_VexPathMatchesCommand == (cli.vexPath # "") <=> HasReportFlags(cli)

\* One direction holds: a command with the flags has its VEX path recorded.
C28_ReportFlagsImplyPath == HasReportFlags(cli) => cli.vexPath = VexFilePath

\* Build after BuildWithReport: the flags are gone, the path is kept.
C28_StalePathAfterBuild ==
    /\ op \in {"Build", "BuildWithPlatforms"}
    /\ HasReportFlags(pre)
    /\ ~HasReportFlags(cli)
    /\ cli.vexPath = VexFilePath

\* Run then reads a VEX document the patcher was never asked to write.
C28_StalePathParsed ==
    /\ op = "Run"
    /\ ~HasReportFlags(pre)
    /\ ~Contains(spawned, Arg("--output"))
    /\ ProcSucceeded
    /\ Contains(calls, "readvex")
    /\ Contains(err, "parsing vex doc failed")

(***************************************************************************)
(* C29  In dry-run mode, Run on any command that passes validation,        *)
(* including one built with BuildWithReport against an existing report     *)
(* path, completes without error: the pipeline never depends on a VEX      *)
(* file that only a real patcher run would have written.                   *)
(***************************************************************************)
\* Run in dry-run mode went past validation and the registry login.
DryRunPastAuth ==
    /\ op = "Run"
    /\ pre.dryRun
    /\ Contains(calls, "auth")
    /\ authReply # "error"

C29_DryRunCompletes == DryRunPastAuth => err = NoErr

\* Without a requested VEX document the dry run does complete.
C29_DryRunWithoutReport == (DryRunPastAuth /\ pre.vexPath = "") => err = NoErr

\* The dry run of a report-based command fails on the VEX file nobody wrote.
C29_DryRunNeedsVexFile ==
    /\ DryRunPastAuth
    /\ ShapeOf(request) = "ReportBasedPatchParams"
    /\ Stat(pre.reportPath) = "ok"
    /\ HasReportFlags(pre)
    /\ spawned = <<>>
    /\ vexFile = Absent
    /\ Contains(err, "parsing vex doc failed")

\* With a file left by an earlier run it reports that run's counts.
C29_DryRunReadsStaleFile ==
    /\ DryRunPastAuth
    /\ HasReportFlags(pre)
    /\ spawned = <<>>
    /\ vexFile = StaleFile
    /\ err = NoErr
    /\ result.FixedVulnerabilityCount = 1

====
